---- MODULE Spec2Model ----
\* Verification model of bank-recon-agent:
\*   - the receipt matching engine   (src/app/services/match_receipts.py)
\*   - the payment batch orchestrator (src/app/routes/xero_data.py,
\*     src/app/services/payment_orchestrator.py, src/app/services/xero_client.py)
\*
\* Conventions
\*   Python None / float NaN / pandas NaT and ordinary values are tagged records
\*   [tag, v] so that values of different Python types can be compared.
\*   Money in the matching engine is an integer number of minor units.
\*   Dates are integer day numbers.
EXTENDS Integers, Sequences, FiniteSets, Bags, TLC

VARIABLES
    \* ---- receipt matching run (match_receipts_to_bank) ----
    bank_df,            \* the caller's table: rows of raw cells (Date, Amount)
    receipts,           \* the caller's receipt list (raw dicts)
    df,                 \* the working copy with the temp and output columns
    recs,               \* receipts with parsed fields, amount-less ones dropped
    used_receipt_ids,   \* ids consumed so far in this run
    idx,                \* number of rows the loop has processed
    counters,           \* matched / dup_candidates / no_candidates / multi_candidates
    enriched,           \* the returned frame, <<>> until the run returns
    summary,            \* the returned summary, <<>> until the run returns
    mpc,                \* position of the run: "start", "loop", "done", "error"
    \* ---- validation and build of one batch ----
    v_payload,          \* the batch request handed to the two builders
    v_route,            \* <<result>> of routes/xero_data.py _validate_and_build
    v_service,          \* <<result>> of services/payment_orchestrator.py validate_and_build
    \* ---- POST /payments/post (payments_post) ----
    calls,              \* one record per postBatch call, in order of arrival
    ledger,             \* the bag of submissions the external ledger has received
    audit,              \* the lines of the audit log file, in file order
    \* ---- bank account resolution ----
    k_accounts,         \* the Accounts list of the directory's answer
    k_hint,             \* the caller's hint
    k_route,            \* <<result>> of routes/xero_data.py _pick_bank_account_id
    k_service,          \* <<result>> of services/payment_orchestrator.py pick_bank_account_id
    \* ---- amount column of a bank table (match_receipts.py 185-208) ----
    s_columns,          \* which of the columns Amount, Debit, Credit the table has
    s_df,               \* the rows of the table as read from the CSV
    s_BankAmt,          \* <<outcome>> of the amount normalisation, <<>> before it
    \* ---- column detection of a matching run (match_receipts.py 173-204) ----
    d_columns,          \* the headers of the uploaded table, in column order
    d_detected,         \* <<[bank_date_col, bank_amt_col]>> once detection has run
    \* ---- the audit log file under several writers (_append_audit) ----
    a_file,             \* the contents of the log file, a sequence of pieces of lines
    a_records,          \* per writer: the records its call appends
    a_pc,               \* per writer: "start", "open", "closed"
    a_next,             \* per writer: the index of the next record of the for loop
    a_pending,          \* per writer: what f.write has buffered and not yet written
    \* ---- POST /recon/match-receipts called again and again ----
    r_store,            \* the receipts of the receipt store
    r_done,             \* one record per finished call: its table and what it returned
    \* ---- POST /payments/preview (payments_preview) ----
    q_preview           \* <<answer>> of the latest previewBatch call, <<>> before the first

mvars == <<bank_df, receipts, df, recs, used_receipt_ids, idx, counters, enriched, summary, mpc>>
vvars == <<v_payload, v_route, v_service>>
pvars == <<calls, ledger, audit>>
kvars == <<k_accounts, k_hint, k_route, k_service>>
svars == <<s_columns, s_df, s_BankAmt>>
dvars == <<d_columns, d_detected>>
avars == <<a_file, a_records, a_pc, a_next, a_pending>>
rvars == <<r_store, r_done>>
qvars == <<q_preview>>
vars == <<mvars, vvars, pvars, kvars, svars, dvars, avars, rvars, qvars>>

\* ---------------------------------------------------------------------------
\* Bounds of the model
\* ---------------------------------------------------------------------------
MaxBank == 2        \* longest bank table
MaxRec == 2         \* longest receipt list
MaxAllocs == 2      \* most invoice allocations on one line
MaxDir == 2         \* longest account directory given to the resolution
MaxCalls == 2       \* most postBatch calls in one behaviour
MaxCols == 3        \* most columns of an uploaded table
MaxItems == 2       \* most audit records of one call, where several calls write
MaxRuns == 2        \* most calls of the matching endpoint in one behaviour

\* ---------------------------------------------------------------------------
\* Tagged values
\* ---------------------------------------------------------------------------
None == [tag |-> "None", v |-> 0]
NaN == [tag |-> "NaN", v |-> 0]
NaT == [tag |-> "NaT", v |-> 0]
Text == [tag |-> "text", v |-> 0]      \* a cell that is no number / no date
Val(n) == [tag |-> "val", v |-> n]
IsVal(x) == x.tag = "val"
NoneStr == "None"                      \* None in a string-valued field
NoList == [tag |-> "None", v |-> <<>>]
List(s) == [tag |-> "list", v |-> s]

Abs(n) == IF n < 0 THEN -n ELSE n

Ids(s) == [i \in 1..Len(s) |-> s[i].id]

\* ---------------------------------------------------------------------------
\* Inputs of a matching run
\* ---------------------------------------------------------------------------
date_window_days == 3
amount_tol == 1

BankAmountCells == {Text, Val(-10), Val(12)}
BankDateCells == {Text, Val(5)}
ReceiptIds == {"r1", "r2"}
ReceiptAmounts == {None, Val(10), Val(-11)}
ReceiptDates == {None, Val(8), Val(9)}

BankRows == [Date : BankDateCells, Amount : BankAmountCells]
\* a receipt without an amount is dropped before its date is looked at, so one
\* such receipt per id is enough
ReceiptCores ==
    {c \in [id : ReceiptIds, amount : ReceiptAmounts, date : ReceiptDates] :
        c.amount = None => c.date = None}
\* ids are opaque: the first receipt is named r1, later ones may repeat an id
ReceiptLists ==
    {cores \in UNION {[1..k -> ReceiptCores] : k \in 0..MaxRec} :
        Len(cores) > 0 => cores[1].id = "r1"}
\* a stored receipt: reference and filename are free text, here one per position
MkReceipts(cores) ==
    [i \in 1..Len(cores) |->
        [id |-> cores[i].id, amount |-> cores[i].amount, date |-> cores[i].date,
         reference |-> <<"ref", i>>, filename |-> <<"file", i>>]]

SeqsUpTo(S, n) == UNION {[1..k -> S] : k \in 0..n}

\* ---------------------------------------------------------------------------
\* Helpers of match_receipts.py
\* ---------------------------------------------------------------------------
\* _parse_date_safe: None / empty / unparseable text -> None, else the date
_parse_date_safe(val) == IF IsVal(val) THEN val ELSE None

\* _norm_amount: None / NaN / empty / non-numeric -> None, else float(s)
_norm_amount(val) == IF IsVal(val) THEN val ELSE None

\* a window test that forgets the absolute value
WithinDaysSigned(d1, d2, days) == d1.v - d2.v <= days

\* _within_days: calendar-day difference, symmetric, inclusive
_within_days(d1, d2, days) == Abs(d1.v - d2.v) <= days

\* Series.apply(f) on a column: pandas infers the dtype of the result.  A column
\* whose results are all None stays an object column of None; as soon as one
\* result is a float (a datetime) the column becomes float64 (datetime64) and
\* every None in it is stored as NaN (NaT).
ApplyColumn(col, missing) ==
    IF \E i \in 1..Len(col) : IsVal(col[i])
    THEN [i \in 1..Len(col) |-> IF IsVal(col[i]) THEN col[i] ELSE missing]
    ELSE col

\* the receipts as prepared before the loop: parsed, amount-less ones skipped,
\* amounts made absolute
PrepareReceipts(rs) ==
    LET parsed == [i \in 1..Len(rs) |->
                     [id |-> rs[i].id,
                      amount |-> _norm_amount(rs[i].amount),
                      date |-> _parse_date_safe(rs[i].date),
                      reference |-> rs[i].reference,
                      filename |-> rs[i].filename]]
        kept == SelectSeq(parsed, LAMBDA r : r.amount # None)
    IN [i \in 1..Len(kept) |-> [kept[i] EXCEPT !.amount = Val(Abs(kept[i].amount.v))]]

\* the five review outcomes written to ReviewStatus_Receipt
MATCHED == "Matched via Receipt"
NO_RECEIPT == "No Receipt Found"
MULTIPLE == "Multiple Receipt Candidates - Review"
DUPLICATE == "Duplicate Receipt Use - Review"
NO_AMOUNT == "No Amount - Skip"

\* isoformat() of a parsed receipt date, None when the receipt has no date
IsoDate(d) == IF IsVal(d) THEN [tag |-> "iso", v |-> d.v] ELSE None

\* cand = [r for r in recs if abs(abs(b_amt) - r["amount"]) <= amount_tol]
\* (every comparison with NaN is False)
AmountCandidates(rs, b_amt) ==
    SelectSeq(rs, LAMBDA r : IsVal(b_amt) /\ Abs(Abs(b_amt.v) - r.amount.v) <= amount_tol)

\* the date filter runs when b_date is not None; NaT is not None, and
\* _within_days(NaT, date) is reached for the first dated candidate, where
\* NaT.date() is NaT and NaT - datetime.date is a TypeError
DateFilterRaises(cand, b_date) ==
    b_date = NaT /\ \E i \in 1..Len(cand) : cand[i].date # None

DateCandidates(cand, b_date) ==
    IF b_date = None THEN cand
    ELSE SelectSeq(cand, LAMBDA r : r.date = None
                                    \/ (IsVal(b_date) /\ _within_days(b_date, r.date, date_window_days)))

\* a partition that never looks at the used set
PrimaryIgnoringUsed(cand, used) == cand

\* primary = [r for r in cand if r["id"] not in used_receipt_ids]
Primary(cand, used) == SelectSeq(cand, LAMBDA r : r.id \notin used)

\* a review list that is always taken from the unused candidates
ReviewCandidatesUnusedOnly(cand, primary) == Ids(primary)

\* the id list left for review: the unused candidates when several are unused,
\* all candidates when every one of them is used
ReviewCandidates(cand, primary) ==
    IF Len(primary) > 1 THEN Ids(primary) ELSE Ids(cand)

\* ---------------------------------------------------------------------------
\* match_receipts_to_bank as a state machine
\* ---------------------------------------------------------------------------
\* counters that count the first row twice
CountersFromOne == [matched |-> 1, dup_candidates |-> 0, no_candidates |-> 0, multi_candidates |-> 0]
\* matched = 0, dup_candidates = 0, no_candidates = 0, multi_candidates = 0
NoCounters == [matched |-> 0, dup_candidates |-> 0, no_candidates |-> 0, multi_candidates |-> 0]

MatchInit ==
    /\ v_payload = <<>> /\ v_route = <<>> /\ v_service = <<>>
    /\ calls = <<>> /\ ledger = EmptyBag /\ audit = <<>>
    /\ k_accounts = <<>> /\ k_hint = <<>> /\ k_route = <<>> /\ k_service = <<>>
    /\ s_columns = {} /\ s_df = <<>> /\ s_BankAmt = <<>>
    /\ d_columns = <<>> /\ d_detected = <<>>
    /\ a_file = <<>> /\ a_records = <<>> /\ a_pc = <<>> /\ a_next = <<>> /\ a_pending = <<>>
    /\ r_store = <<>> /\ r_done = <<>>
    /\ q_preview = <<>>
    /\ bank_df \in SeqsUpTo(BankRows, MaxBank)
    /\ \E cores \in ReceiptLists : receipts = MkReceipts(cores)
    /\ df = <<>>
    /\ recs = <<>>
    /\ used_receipt_ids = {}
    /\ idx = 0
    /\ counters = NoCounters
    /\ enriched = <<>>
    /\ summary = <<>>
    /\ mpc = "start"

\* lines 206-242: the temp columns, the prepared receipts, the empty used set,
\* the output columns and the counters
MatchStart ==
    /\ mpc = "start"
    /\ LET dates == ApplyColumn([i \in 1..Len(bank_df) |-> _parse_date_safe(bank_df[i].Date)], NaT)
           amts == ApplyColumn([i \in 1..Len(bank_df) |-> _norm_amount(bank_df[i].Amount)], NaN)
       IN df' = [i \in 1..Len(bank_df) |->
                   [Date |-> bank_df[i].Date,
                    Amount |-> bank_df[i].Amount,
                    _BankDate |-> dates[i],
                    _BankAmt |-> amts[i],
                    MatchedReceiptID |-> NoneStr,
                    MatchedReceiptRef |-> <<>>,
                    MatchedReceiptDate |-> None,
                    MatchedReceiptFile |-> <<>>,
                    ReceiptCandidates |-> NoList,
                    ReviewStatus_Receipt |-> NoneStr]]
    /\ recs' = PrepareReceipts(receipts)
    /\ used_receipt_ids' = {}
    /\ counters' = NoCounters
    /\ idx' = 0
    /\ mpc' = "loop"
    /\ UNCHANGED <<bank_df, receipts, enriched, summary>>
    /\ UNCHANGED <<vvars, pvars, kvars, svars, dvars, avars, rvars, qvars>>

\* lines 244-292: one iteration of the loop over the rows
MatchRow ==
    /\ mpc = "loop"
    /\ idx < Len(df)
    /\ LET i == idx + 1
           b_amt == df[i]._BankAmt
           b_date == df[i]._BankDate
           byAmount == AmountCandidates(recs, b_amt)
           cand == DateCandidates(byAmount, b_date)
           primary == Primary(cand, used_receipt_ids)
       IN IF b_amt = None
          THEN /\ df' = [df EXCEPT ![i].ReviewStatus_Receipt = NO_AMOUNT]
               /\ counters' = [counters EXCEPT !.no_candidates = @ + 1]
               /\ idx' = i
               /\ UNCHANGED <<used_receipt_ids, mpc>>
          ELSE IF b_date # None /\ DateFilterRaises(byAmount, b_date)
          THEN /\ mpc' = "error"
               /\ UNCHANGED <<df, counters, idx, used_receipt_ids>>
          ELSE IF Len(cand) = 0
          THEN /\ df' = [df EXCEPT ![i].ReviewStatus_Receipt = NO_RECEIPT]
               /\ counters' = [counters EXCEPT !.no_candidates = @ + 1]
               /\ idx' = i
               /\ UNCHANGED <<used_receipt_ids, mpc>>
          ELSE IF Len(primary) = 1
          THEN LET chosen == primary[1]
               IN /\ used_receipt_ids' = used_receipt_ids \cup {chosen.id}
                  /\ df' = [df EXCEPT ![i].MatchedReceiptID = chosen.id,
                                      ![i].MatchedReceiptRef = chosen.reference,
                                      ![i].MatchedReceiptDate = IsoDate(chosen.date),
                                      ![i].MatchedReceiptFile = chosen.filename,
                                      ![i].ReviewStatus_Receipt = MATCHED]
                  /\ counters' = [counters EXCEPT !.matched = @ + 1]
                  /\ idx' = i
                  /\ UNCHANGED mpc
          ELSE IF Len(primary) > 1
          THEN /\ df' = [df EXCEPT ![i].ReceiptCandidates = List(ReviewCandidates(cand, primary)),
                                   ![i].ReviewStatus_Receipt = MULTIPLE]
               /\ counters' = [counters EXCEPT !.multi_candidates = @ + 1]
               /\ idx' = i
               /\ UNCHANGED <<used_receipt_ids, mpc>>
          ELSE /\ df' = [df EXCEPT ![i].ReceiptCandidates = List(ReviewCandidates(cand, primary)),
                                   ![i].ReviewStatus_Receipt = DUPLICATE]
               /\ counters' = [counters EXCEPT !.dup_candidates = @ + 1]
               /\ idx' = i
               /\ UNCHANGED <<used_receipt_ids, mpc>>
    /\ UNCHANGED <<bank_df, receipts, recs, enriched, summary>>
    /\ UNCHANGED <<vvars, pvars, kvars, svars, dvars, avars, rvars, qvars>>

\* lines 294-306: the summary, the temp columns dropped, the return
MatchFinish ==
    /\ mpc = "loop"
    /\ idx = Len(df)
    /\ summary' = <<[bank_rows |-> Len(df),
                     matched |-> counters.matched,
                     no_candidates |-> counters.no_candidates,
                     multi_candidates |-> counters.multi_candidates,
                     duplicate_receipt_use |-> counters.dup_candidates]>>
    /\ enriched' = [i \in 1..Len(df) |->
                      [Date |-> df[i].Date,
                       Amount |-> df[i].Amount,
                       MatchedReceiptID |-> df[i].MatchedReceiptID,
                       MatchedReceiptRef |-> df[i].MatchedReceiptRef,
                       MatchedReceiptDate |-> df[i].MatchedReceiptDate,
                       MatchedReceiptFile |-> df[i].MatchedReceiptFile,
                       ReceiptCandidates |-> df[i].ReceiptCandidates,
                       ReviewStatus_Receipt |-> df[i].ReviewStatus_Receipt]]
    /\ mpc' = "done"
    /\ UNCHANGED <<bank_df, receipts, df, recs, used_receipt_ids, idx, counters>>
    /\ UNCHANGED <<vvars, pvars, kvars, svars, dvars, avars, rvars, qvars>>

MatchNext == MatchStart \/ MatchRow \/ MatchFinish

\* ---------------------------------------------------------------------------
\* Properties of the matching run
\* ---------------------------------------------------------------------------
\* the receipt a Matched row was matched with: its position in the caller's list
MatchedPos(i) == df[i].MatchedReceiptRef[2]

\* the receipts that are candidates of bank row i as the specification defines
\* them: an amount, within amount_tol of abs(bank amount) and, when the bank row
\* has a date, no date or a date within date_window_days
SpecCandidates(i) ==
    {k \in 1..Len(receipts) :
        /\ IsVal(receipts[k].amount)
        /\ IsVal(bank_df[i].Amount)
        /\ Abs(Abs(bank_df[i].Amount.v) - Abs(receipts[k].amount.v)) <= amount_tol
        /\ (IsVal(bank_df[i].Date)
              => \/ ~IsVal(receipts[k].date)
                 \/ Abs(bank_df[i].Date.v - receipts[k].date.v) <= date_window_days)}
SpecUnused(i, used) == {k \in SpecCandidates(i) : receipts[k].id \notin used}
\* ids of a set of receipt positions, in list order
RECURSIVE IdsOf(_, _)
IdsOf(K, from) ==
    IF from > Len(receipts) THEN <<>>
    ELSE (IF from \in K THEN <<receipts[from].id>> ELSE <<>>) \o IdsOf(K, from + 1)

\* C1: within one run no receipt id is recorded as MatchedReceiptID on more than
\* one bank record
C1_NoReceiptMatchedTwice ==
    \A i, j \in 1..Len(df) :
        (i # j /\ df[i].ReviewStatus_Receipt = MATCHED /\ df[j].ReviewStatus_Receipt = MATCHED)
            => df[i].MatchedReceiptID # df[j].MatchedReceiptID
\* a finished run in which a second record had the consumed receipt as its only candidate
C1_Witness ==
    /\ mpc = "done"
    /\ \E i, j \in 1..Len(df) :
          /\ i < j
          /\ df[i].ReviewStatus_Receipt = MATCHED
          /\ df[j].ReviewStatus_Receipt = DUPLICATE
          /\ df[j].ReceiptCandidates.v = <<df[i].MatchedReceiptID>>

\* C2: a Matched record and its receipt are within amount_tol by absolute
\* amount, and either one of them has no date or their dates are at most
\* date_window_days calendar days apart
C2_MatchedWithinTolerance ==
    \A i \in 1..Len(df) :
        df[i].ReviewStatus_Receipt = MATCHED =>
            LET b == bank_df[i]
                r == receipts[MatchedPos(i)]
            IN /\ IsVal(b.Amount) /\ IsVal(r.amount)
               /\ Abs(Abs(b.Amount.v) - Abs(r.amount.v)) <= amount_tol
               /\ \/ ~IsVal(b.Date)
                  \/ ~IsVal(r.date)
                  \/ Abs(b.Date.v - r.date.v) <= date_window_days
\* a match at the edge of both the amount tolerance and the date window
C2_Witness ==
    \E i \in 1..Len(df) :
        /\ df[i].ReviewStatus_Receipt = MATCHED
        /\ IsVal(bank_df[i].Date) /\ IsVal(receipts[MatchedPos(i)].date)
        /\ Abs(bank_df[i].Date.v - receipts[MatchedPos(i)].date.v) = date_window_days
        /\ Abs(Abs(bank_df[i].Amount.v) - Abs(receipts[MatchedPos(i)].amount.v)) = amount_tol

\* C8: a bank record with a parseable amount is Matched exactly when one of its
\* candidates is unused at that point; that receipt is then consumed and its id,
\* reference, date and filename are copied onto the record
C8_MatchedIffOneUnused ==
    [][(mpc = "loop" /\ idx < Len(bank_df) /\ IsVal(bank_df[idx + 1].Amount)) =>
         LET i == idx + 1
             U == SpecUnused(i, used_receipt_ids)
             isMatched == mpc' = "loop" /\ idx' = i /\ df'[i].ReviewStatus_Receipt = MATCHED
         IN /\ (Cardinality(U) = 1) <=> isMatched
            /\ isMatched =>
                 LET k == CHOOSE k \in U : TRUE
                 IN /\ used_receipt_ids' = used_receipt_ids \cup {receipts[k].id}
                    /\ df'[i].MatchedReceiptID = receipts[k].id
                    /\ df'[i].MatchedReceiptRef = receipts[k].reference
                    /\ df'[i].MatchedReceiptDate = IsoDate(receipts[k].date)
                    /\ df'[i].MatchedReceiptFile = receipts[k].filename
      ]_vars

\* C9: a record left as MultipleCandidates or DuplicateReceiptUse consumes
\* nothing, keeps an empty MatchedReceiptID, and carries the ids of all unused
\* candidates (Multiple) or of all candidates, none of them unused (Duplicate)
C9_ReviewOutcomesConsumeNothing ==
    [][(mpc = "loop" /\ idx < Len(bank_df) /\ idx' = idx + 1
          /\ df'[idx + 1].ReviewStatus_Receipt \in {MULTIPLE, DUPLICATE}) =>
         LET i == idx + 1
             C == SpecCandidates(i)
             U == SpecUnused(i, used_receipt_ids)
         IN /\ used_receipt_ids' = used_receipt_ids
            /\ df'[i].MatchedReceiptID = NoneStr
            /\ df'[i].ReviewStatus_Receipt = MULTIPLE =>
                 (Cardinality(U) > 1 /\ df'[i].ReceiptCandidates = List(IdsOf(U, 1)))
            /\ df'[i].ReviewStatus_Receipt = DUPLICATE =>
                 (U = {} /\ C # {} /\ df'[i].ReceiptCandidates = List(IdsOf(C, 1)))
      ]_vars
\* a finished run with a Multiple record listing two unused receipts and
\* nothing consumed
C9_Witness ==
    /\ mpc = "done"
    /\ used_receipt_ids = {}
    /\ \E i \in 1..Len(df) :
          /\ df[i].ReviewStatus_Receipt = MULTIPLE
          /\ Len(df[i].ReceiptCandidates.v) = 2

\* ===========================================================================
\* Payment batch orchestrator
\* ===========================================================================
\* Request amounts are decimal numbers with up to three decimals, held as an
\* integer number of thousandths (10005 is 10.005).  A Decimal quantized to two
\* places is held as an integer number of hundredths (1001 is 10.01), a rate
\* quantized to six places as an integer number of millionths.

Sign(n) == IF n < 0 THEN -1 ELSE 1

\* Decimal(str(v)).quantize(Decimal("0.01"), rounding=ROUND_HALF_UP):
\* thousandths -> hundredths, ties away from zero
\* ROUND_HALF_EVEN in its place
Round2HalfEven(v) ==
    LET q == Abs(v) \div 10
        r == Abs(v) % 10
    IN Sign(v) * (IF r > 5 \/ (r = 5 /\ q % 2 = 1) THEN q + 1 ELSE q)
_round2(v) == Sign(v) * ((Abs(v) + 5) \div 10)

\* a two-place Decimal handed to _round2 again (it is already quantized)
Cents(c) == 10 * c

\* (a / b).quantize(Decimal("0.000001"), rounding=ROUND_HALF_UP) for a >= 0, b > 0,
\* in millionths
_round_rate6(a, b) == (2 * a * 1000000 + b) \div (2 * b)

\* Python truthiness of an optional string: None and "" are falsy
Falsy(str) == str \in {NoneStr, ""}

RECURSIVE SumRound2(_)
\* sum(_round2(i.amount) for i in invoices), in hundredths
SumRound2(invs) ==
    IF Len(invs) = 0 THEN 0 ELSE _round2(Head(invs).amount) + SumRound2(Tail(invs))

\* cfg.get("amount_tolerance", 0.01) as a Decimal, in thousandths
DefaultTolerance == 10
\* (ln.reference or "").strip(); the model's references carry no outer blanks
Reference(ln) == IF Falsy(ln.reference) THEN "" ELSE ln.reference
RefField(reference) == IF reference = "" THEN NoneStr ELSE reference

NoError == "ok"
Built(payments, banktxns, preview) ==
    [err |-> NoError, line |-> NoneStr, payments |-> payments, banktxns |-> banktxns,
     preview |-> preview]
Raised(kind, bank_line_id) ==
    [err |-> kind, line |-> bank_line_id, payments |-> <<>>, banktxns |-> <<>>,
     preview |-> <<>>]

PreviewItem(bank_line_id, type, payload) ==
    [bank_line_id |-> bank_line_id, type |-> type, payload |-> payload]

\* ---- routes/xero_data.py: _validate_and_build, one line ----
RoutePayment(ln, i, bank_account_id) ==
    [Invoice |-> ln.invoices.v[i].invoice_id,
     Account |-> bank_account_id,
     Date |-> ln.date,
     Amount |-> _round2(ln.invoices.v[i].amount),
     CurrencyRate |-> 0,                       \* key absent
     Reference |-> RefField(Reference(ln))]

\* the direction inferred from the sign of the bank amount
RouteBankTxnBySign(ln, bank_account_id) ==
    LET ni == ln.non_invoice
        amt == _round2(ln.amount)
    IN [Type |-> IF amt < 0 THEN "SPEND" ELSE "RECEIVE",
        Contact |-> IF Falsy(ni.contact_id) THEN NoneStr ELSE ni.contact_id,
        Date |-> ln.date,
        Reference |-> RefField(Reference(ln)),
        BankAccount |-> bank_account_id,
        Description |-> IF ~Falsy(ni.description) THEN ni.description
                        ELSE IF Reference(ln) # "" THEN Reference(ln)
                        ELSE IF ni.is_spend THEN "Spend Money" ELSE "Receive Money",
        AccountCode |-> ni.account_code,
        AccountID |-> NoneStr,
        Quantity |-> 1,
        UnitAmount |-> Abs(amt),
        TaxType |-> "NONE"]

RouteBankTxn(ln, bank_account_id) ==
    LET ni == ln.non_invoice
        amt == _round2(ln.amount)
    IN [Type |-> IF ni.is_spend THEN "SPEND" ELSE "RECEIVE",
        Contact |-> IF Falsy(ni.contact_id) THEN NoneStr ELSE ni.contact_id,
        Date |-> ln.date,
        Reference |-> RefField(Reference(ln)),
        BankAccount |-> bank_account_id,
        Description |-> IF ~Falsy(ni.description) THEN ni.description
                        ELSE IF Reference(ln) # "" THEN Reference(ln)
                        ELSE IF ni.is_spend THEN "Spend Money" ELSE "Receive Money",
        AccountCode |-> ni.account_code,
        AccountID |-> NoneStr,                 \* key absent
        Quantity |-> 1,
        UnitAmount |-> Abs(amt),
        TaxType |-> "NONE"]

_validate_line(ln, cfg, bank_account_id) ==
    LET amt == _round2(ln.amount)
    IN IF ln.type = "invoices"
       THEN IF ln.invoices = NoList \/ Len(ln.invoices.v) = 0
            THEN Raised("MissingAllocation", ln.bank_line_id)
            ELSE LET total_apply == _round2(Cents(SumRound2(ln.invoices.v)))
                 IN IF cfg.require_exact_totals
                       /\ Cents(Abs(total_apply - amt)) > cfg.amount_tolerance
                    THEN Raised("AmountMismatch", ln.bank_line_id)
                    ELSE LET ps == [i \in 1..Len(ln.invoices.v) |->
                                       RoutePayment(ln, i, bank_account_id)]
                         IN Built(ps, <<>>,
                                  [i \in 1..Len(ps) |->
                                      PreviewItem(ln.bank_line_id, "payment", ps[i])])
       ELSE IF ln.type = "non_invoice"
       THEN IF ln.non_invoice.tag = "None"
            THEN Raised("MissingNonInvoice", ln.bank_line_id)
            ELSE LET txn == RouteBankTxn(ln, bank_account_id)
                 IN Built(<<>>, <<txn>>,
                          <<PreviewItem(ln.bank_line_id, "banktxn", txn)>>)
       ELSE Raised("UnknownLineType", ln.bank_line_id)

RECURSIVE RouteLines(_, _, _, _)
\* the loop over payload.lines: the first failing line raises, nothing is returned
RouteLines(lines, cfg, bank_account_id, acc) ==
    IF Len(lines) = 0 THEN acc
    ELSE LET one == _validate_line(Head(lines), cfg, bank_account_id)
         IN IF one.err # NoError THEN one
            ELSE RouteLines(Tail(lines), cfg, bank_account_id,
                            Built(acc.payments \o one.payments,
                                  acc.banktxns \o one.banktxns,
                                  acc.preview \o one.preview))

_validate_and_build(payload, bank_account_id) ==
    RouteLines(payload.lines, payload.config, bank_account_id, Built(<<>>, <<>>, <<>>))

\* ---- services/payment_orchestrator.py: validate_and_build, one line ----
ServicePayment(ln, i, bank_account_id, currency_rate) ==
    [Invoice |-> ln.invoices.v[i].invoice_id,
     Account |-> bank_account_id,
     Date |-> ln.date,
     Amount |-> _round2(ln.invoices.v[i].amount),
     CurrencyRate |-> currency_rate,
     Reference |-> RefField(Reference(ln))]

ServiceBankTxn(ln, bank_account_id) ==
    LET ni == ln.non_invoice
        amt_local_signed == _round2(ln.amount)
    IN [Type |-> IF ni.is_spend THEN "SPEND" ELSE "RECEIVE",
        Contact |-> IF Falsy(ni.contact_id) THEN NoneStr ELSE ni.contact_id,
        Date |-> ln.date,
        Reference |-> RefField(Reference(ln)),
        BankAccount |-> bank_account_id,
        Description |-> IF ~Falsy(ni.description) THEN ni.description
                        ELSE IF Reference(ln) # "" THEN Reference(ln)
                        ELSE IF ni.is_spend THEN "Spend Money" ELSE "Receive Money",
        AccountCode |-> IF ~Falsy(ni.account_id) THEN NoneStr ELSE ni.account_code,
        AccountID |-> IF ~Falsy(ni.account_id) THEN ni.account_id ELSE NoneStr,
        Quantity |-> 1,
        UnitAmount |-> Abs(amt_local_signed),
        TaxType |-> "NONE"]

validate_line(ln, cfg, bank_account_id) ==
    LET amt_local_signed == _round2(ln.amount)
    IN IF ln.type = "invoices"
       THEN IF ln.invoices = NoList \/ Len(ln.invoices.v) = 0
            THEN Raised("MissingAllocation", ln.bank_line_id)
            ELSE LET foreign_total == _round2(Cents(SumRound2(ln.invoices.v)))
                     local_total_abs == _round2(Cents(Abs(amt_local_signed)))
                 IN IF foreign_total <= 0
                    THEN Raised("NonPositiveTotal", ln.bank_line_id)
                    ELSE IF cfg.require_exact_totals
                            /\ Cents(Abs(local_total_abs - foreign_total)) > cfg.amount_tolerance
                    THEN Raised("AmountMismatch", ln.bank_line_id)
                    ELSE LET currency_rate == _round_rate6(local_total_abs, foreign_total)
                             ps == [i \in 1..Len(ln.invoices.v) |->
                                       ServicePayment(ln, i, bank_account_id, currency_rate)]
                         IN Built(ps, <<>>,
                                  [i \in 1..Len(ps) |->
                                      PreviewItem(ln.bank_line_id, "payment", ps[i])])
       ELSE IF ln.type = "non_invoice"
       THEN LET ni == ln.non_invoice      \* ln.get("non_invoice") or {}
                is_spend == ni.tag # "None" /\ ni.is_spend
            IN IF is_spend /\ Falsy(ni.contact_id)
               THEN Raised("MissingContact", ln.bank_line_id)
               ELSE IF ni.tag = "None" \/ (Falsy(ni.account_code) /\ Falsy(ni.account_id))
               THEN Raised("MissingAccount", ln.bank_line_id)
               ELSE LET txn == ServiceBankTxn(ln, bank_account_id)
                    IN Built(<<>>, <<txn>>,
                             <<PreviewItem(ln.bank_line_id, "banktxn", txn)>>)
       ELSE Raised("UnknownLineType", ln.bank_line_id)

RECURSIVE ServiceLines(_, _, _, _)
ServiceLines(lines, cfg, bank_account_id, acc) ==
    IF Len(lines) = 0 THEN acc
    ELSE LET one == validate_line(Head(lines), cfg, bank_account_id)
         IN IF one.err # NoError THEN one
            ELSE ServiceLines(Tail(lines), cfg, bank_account_id,
                              Built(acc.payments \o one.payments,
                                    acc.banktxns \o one.banktxns,
                                    acc.preview \o one.preview))

validate_and_build(payload, bank_account_id) ==
    ServiceLines(payload.lines, payload.config, bank_account_id, Built(<<>>, <<>>, <<>>))

\* ---------------------------------------------------------------------------
\* Inputs of validation: one batch, its last line drawn from LineItems
\* ---------------------------------------------------------------------------
BankLineAmounts == {-1000, 1000, 1005}          \* -1.00, 1.00, 1.005
AllocationAmounts == {1000, 985, 980, 500, -500}

NoNonInvoice ==
    [tag |-> "None", is_spend |-> FALSE, account_code |-> NoneStr, account_id |-> NoneStr,
     contact_id |-> NoneStr, description |-> NoneStr]
NonInvoicePayloads ==
    [tag : {"val"}, is_spend : BOOLEAN, account_code : {"", "4205"},
     account_id : {NoneStr, "acc-1"}, contact_id : {NoneStr, "contact-1"},
     description : {NoneStr}]

Allocations(amounts) == [i \in 1..Len(amounts) |-> [invoice_id |-> <<"inv", i>>, amount |-> amounts[i]]]
AllocationLists ==
    {NoList} \cup {List(Allocations(a)) : a \in SeqsUpTo(AllocationAmounts, MaxAllocs)}

Line(id, amount, type, invoices, non_invoice) ==
    [bank_line_id |-> id, date |-> "2025-07-11", amount |-> amount, reference |-> NoneStr,
     type |-> type, invoices |-> invoices, non_invoice |-> non_invoice]

LineItems ==
    {Line("line-2", a, "invoices", invs, NoNonInvoice) :
        a \in BankLineAmounts, invs \in AllocationLists}
    \cup {Line("line-2", a, "non_invoice", NoList, ni) :
        a \in BankLineAmounts, ni \in NonInvoicePayloads \cup {NoNonInvoice}}
    \cup {Line("line-2", 1000, "transfer", NoList, NoNonInvoice)}

\* a line both builders accept, to stand in front of the line under test
GoodLine ==
    Line("line-1", 1000, "non_invoice", NoList,
         [tag |-> "val", is_spend |-> FALSE, account_code |-> "4205", account_id |-> NoneStr,
          contact_id |-> NoneStr, description |-> NoneStr])

Configs == [require_exact_totals : BOOLEAN, amount_tolerance : {DefaultTolerance, 0}]

ValidateInit ==
    /\ bank_df = <<>> /\ receipts = <<>> /\ df = <<>> /\ recs = <<>>
    /\ used_receipt_ids = {} /\ idx = 0 /\ counters = NoCounters
    /\ enriched = <<>> /\ summary = <<>> /\ mpc = "idle"
    /\ calls = <<>> /\ ledger = EmptyBag /\ audit = <<>>
    /\ k_accounts = <<>> /\ k_hint = <<>> /\ k_route = <<>> /\ k_service = <<>>
    /\ s_columns = {} /\ s_df = <<>> /\ s_BankAmt = <<>>
    /\ d_columns = <<>> /\ d_detected = <<>>
    /\ a_file = <<>> /\ a_records = <<>> /\ a_pc = <<>> /\ a_next = <<>> /\ a_pending = <<>>
    /\ r_store = <<>> /\ r_done = <<>>
    /\ q_preview = <<>>
    /\ \E ln \in LineItems, prefix \in {<<>>, <<GoodLine>>}, cfg \in Configs :
          v_payload = <<[bank_account_hint |-> <<>>, lines |-> prefix \o <<ln>>, config |-> cfg]>>
    /\ v_route = <<>>
    /\ v_service = <<>>

\* the route's builder applied to the batch
ValidateRoute ==
    /\ v_payload # <<>> /\ v_route = <<>>
    /\ v_route' = <<_validate_and_build(v_payload[1], "bank-1")>>
    /\ UNCHANGED <<v_payload, v_service>>
    /\ UNCHANGED <<mvars, pvars, kvars, svars, dvars, avars, rvars, qvars>>

\* the service's builder applied to the batch
ValidateService ==
    /\ v_payload # <<>> /\ v_service = <<>>
    /\ v_service' = <<validate_and_build(v_payload[1], "bank-1")>>
    /\ UNCHANGED <<v_payload, v_route>>
    /\ UNCHANGED <<mvars, pvars, kvars, svars, dvars, avars, rvars, qvars>>

ValidateNext == ValidateRoute \/ ValidateService

\* ---------------------------------------------------------------------------
\* Properties of validation
\* ---------------------------------------------------------------------------
\* the line under test: the last line of the batch
TestedLine == v_payload[1].lines[Len(v_payload[1].lines)]

\* an invoices line that reaches the totals comparison: it carries allocations
\* and their rounded sum is positive
ReachesTotals(ln) ==
    /\ ln.type = "invoices"
    /\ ln.invoices # NoList
    /\ Len(ln.invoices.v) > 0
    /\ SumRound2(ln.invoices.v) > 0

\* the totals differ by more than the tolerance, the bank amount taken absolute
TotalsDiffer(ln, cfg) ==
    Cents(Abs(SumRound2(ln.invoices.v) - Abs(_round2(ln.amount)))) > cfg.amount_tolerance

AmountMismatchExactly(result) ==
    (v_payload # <<>> /\ result # <<>> /\ ReachesTotals(TestedLine)) =>
        ((result[1].err = "AmountMismatch" /\ result[1].line = TestedLine.bank_line_id)
            <=> (v_payload[1].config.require_exact_totals
                    /\ TotalsDiffer(TestedLine, v_payload[1].config)))

\* the claim as the service builder (payment_orchestrator.validate_and_build) meets it
C3_ServiceBuilder == AmountMismatchExactly(v_service)

\* C3: an invoices line fails with AmountMismatch exactly when exact totals are
\* required and |rounded allocation sum - abs(rounded bank amount)| exceeds the
\* tolerance, whatever the sign of the bank amount; never when exact totals are
\* not required
C3_AmountMismatchExactly ==
    AmountMismatchExactly(v_route) /\ AmountMismatchExactly(v_service)

\* the result is about the line under test: the lines before it were accepted
Tested(result) == v_payload # <<>> /\ result # <<>>
Accepts(result) == result[1].err = NoError
Rejects(result, kind) ==
    /\ result[1].err = kind /\ result[1].line = TestedLine.bank_line_id
    /\ result[1].payments = <<>> /\ result[1].banktxns = <<>>
\* what the builder built for the line under test
BuiltPayments(result) ==
    SubSeq(result[1].payments, 1 + Len(result[1].payments) - Len(TestedLine.invoices.v),
           Len(result[1].payments))
BuiltBankTxn(result) == result[1].banktxns[Len(result[1].banktxns)]

HasAccountRef(ni) == ni.tag = "val" /\ (~Falsy(ni.account_code) \/ ~Falsy(ni.account_id))
HasContact(ni) == ni.tag = "val" /\ ~Falsy(ni.contact_id)
IsSpend(ni) == ni.tag = "val" /\ ni.is_spend

NonInvoiceExactly(result) ==
    (Tested(result) /\ TestedLine.type = "non_invoice") =>
        LET ni == TestedLine.non_invoice
        IN /\ Accepts(result) <=> (HasAccountRef(ni) /\ (IsSpend(ni) => HasContact(ni)))
           /\ (IsSpend(ni) /\ ~HasContact(ni)) => Rejects(result, "MissingContact")

\* the claim as the service builder meets it
C13_ServiceBuilder == NonInvoiceExactly(v_service)

\* C13: a non_invoice line passes validation exactly when it carries an account
\* reference and, for a spend, a contact; a spend without contact fails with
\* MissingContact naming the line, and nothing is built.
C13_NonInvoiceExactly == NonInvoiceExactly(v_route) /\ NonInvoiceExactly(v_service)

InvoicesRejected(result) ==
    (Tested(result) /\ TestedLine.type = "invoices") =>
        LET invs == TestedLine.invoices
        IN /\ (invs = NoList \/ Len(invs.v) = 0) => Rejects(result, "MissingAllocation")
           /\ (invs # NoList /\ Len(invs.v) > 0 /\ SumRound2(invs.v) <= 0) => ~Accepts(result)
           /\ ~Accepts(result) => result[1].payments = <<>>

\* the claim as the service builder meets it
C14_ServiceBuilder == InvoicesRejected(v_service)

\* C14: an invoices line without allocations is rejected with MissingAllocation,
\* one whose rounded allocation sum is not positive is rejected too, whatever
\* require_exact_totals says, and no Payment is built.
C14_InvoicesRejected == InvoicesRejected(v_route) /\ InvoicesRejected(v_service)

\* the rate a / b in millionths, rounded half-up, stated without the division
IsRate6(rate, a, b) == 2 * b * rate - b <= 2 * a * 1000000 /\ 2 * a * 1000000 < 2 * b * rate + b

PaymentsCarryRate(result) ==
    (Tested(result) /\ TestedLine.type = "invoices" /\ Accepts(result)) =>
        LET ps == BuiltPayments(result)
            invs == TestedLine.invoices.v
        IN \A i \in 1..Len(ps) :
              /\ ps[i].CurrencyRate = ps[1].CurrencyRate
              /\ IsRate6(ps[i].CurrencyRate, Abs(_round2(TestedLine.amount)), SumRound2(invs))
              /\ ps[i].Amount = _round2(invs[i].amount)

\* the claim as the service builder meets it
C15_ServiceBuilder == PaymentsCarryRate(v_service)

\* C15: every Payment built from an accepted invoices line carries the same
\* CurrencyRate, |rounded bank amount| / rounded allocation sum rounded half-up
\* to six decimals, and the 2-decimal rounding of its own allocation as Amount.
C15_PaymentsCarryRate == PaymentsCarryRate(v_route) /\ PaymentsCarryRate(v_service)

BankTxnDirection(result) ==
    (Tested(result) /\ TestedLine.type = "non_invoice" /\ Accepts(result)) =>
        LET txn == BuiltBankTxn(result)
            r == _round2(TestedLine.amount)
        IN /\ txn.UnitAmount = (IF r < 0 THEN -r ELSE r)
           /\ txn.Type = (IF TestedLine.non_invoice.is_spend THEN "SPEND" ELSE "RECEIVE")

IsHalfUp2(r, v) ==
    IF v >= 0 THEN 10 * r - 5 <= v /\ v < 10 * r + 5
    ELSE 10 * (-r) - 5 <= -v /\ -v < 10 * (-r) + 5
HalfUp2(v) == CHOOSE r \in -200..200 : IsHalfUp2(r, v)
RECURSIVE SumHalfUp2(_)
SumHalfUp2(invs) ==
    IF Len(invs) = 0 THEN 0 ELSE HalfUp2(Head(invs).amount) + SumHalfUp2(Tail(invs))
\* the totals as the claim compares them, in thousandths
RoundedGap(ln) ==
    LET b == HalfUp2(ln.amount)
        gap == SumHalfUp2(ln.invoices.v) - (IF b < 0 THEN -b ELSE b)
    IN 10 * (IF gap < 0 THEN -gap ELSE gap)

RoundedBeforeCompared(result) ==
    Tested(result) =>
        /\ (TestedLine.type = "invoices" /\ Accepts(result)) =>
              \A i \in 1..Len(TestedLine.invoices.v) :
                  IsHalfUp2(BuiltPayments(result)[i].Amount, TestedLine.invoices.v[i].amount)
        /\ (TestedLine.type = "non_invoice" /\ Accepts(result)) =>
              IsHalfUp2(BuiltBankTxn(result).UnitAmount,
                        IF TestedLine.amount < 0 THEN -TestedLine.amount ELSE TestedLine.amount)

\* C17: every monetary value is rounded to two places half-up (a tie goes up,
\* never down), and the service builder decides AmountMismatch on the values
\* rounded so: each allocation rounded, their sum, and the rounded bank amount.
C17_RoundedBeforeCompared ==
    /\ RoundedBeforeCompared(v_route) /\ RoundedBeforeCompared(v_service)
    /\ (Tested(v_service) /\ TestedLine.type = "invoices" /\ TestedLine.invoices # NoList
          /\ Len(TestedLine.invoices.v) > 0 /\ SumHalfUp2(TestedLine.invoices.v) > 0) =>
          (Rejects(v_service, "AmountMismatch")
              <=> (v_payload[1].config.require_exact_totals
                     /\ RoundedGap(TestedLine) > v_payload[1].config.amount_tolerance))

\* a bank amount of 1.005 against allocations of 1.00 with tolerance 0: the tie
\* goes up to 1.01 and the line is rejected
C17_Witness ==
    /\ Tested(v_service) /\ TestedLine.type = "invoices" /\ TestedLine.amount = 1005
    /\ TestedLine.invoices # NoList /\ Len(TestedLine.invoices.v) = 2
    /\ TestedLine.invoices.v[1].amount + TestedLine.invoices.v[2].amount = 1000
    /\ v_payload[1].config.require_exact_totals /\ v_payload[1].config.amount_tolerance = 0
    /\ Rejects(v_service, "AmountMismatch")

\* ===========================================================================
\* Posting a batch: bank account resolution, idempotency keys, the two ledger
\* submissions and the audit log
\* ===========================================================================
\* Names, codes and hints are sequences of one-character strings.
LowerChar(c) ==
    CASE c = "A" -> "a"
      [] c = "B" -> "b"
      [] c = "C" -> "c"
      [] c = "D" -> "d"
      [] c = "E" -> "e"
      [] c = "F" -> "f"
      [] c = "G" -> "g"
      [] c = "H" -> "h"
      [] c = "I" -> "i"
      [] c = "J" -> "j"
      [] c = "K" -> "k"
      [] c = "L" -> "l"
      [] c = "M" -> "m"
      [] c = "N" -> "n"
      [] c = "O" -> "o"
      [] c = "P" -> "p"
      [] c = "Q" -> "q"
      [] c = "R" -> "r"
      [] c = "S" -> "s"
      [] c = "T" -> "t"
      [] c = "U" -> "u"
      [] c = "V" -> "v"
      [] c = "W" -> "w"
      [] c = "X" -> "x"
      [] c = "Y" -> "y"
      [] c = "Z" -> "z"
      [] OTHER -> c
Lower(str) == [i \in 1..Len(str) |-> LowerChar(str[i])]
\* needle in hay
Contains(hay, needle) ==
    \E i \in 1..(Len(hay) - Len(needle) + 1) : SubSeq(hay, i, i + Len(needle) - 1) = needle

\* accts = [a for a in Accounts if Type == "BANK" and Status == "ACTIVE"]
ActiveBank(accounts) ==
    SelectSeq(accounts, LAMBDA a : a.Type = "BANK" /\ a.Status = "ACTIVE")

\* the first active bank account whose "Name Code" contains the hint, else the
\* first active bank account; <<>> when there is none (HTTP 400)
\* a resolution that does not look at the Status
PickAnyStatus(accounts, hint) ==
    LET accts == SelectSeq(accounts, LAMBDA a : a.Type = "BANK")
        hits == SelectSeq(accts, LAMBDA a :
                   Contains(Lower(a.Name \o <<" ">> \o a.Code), Lower(hint)))
    IN IF Len(accts) = 0 THEN <<>>
       ELSE IF Len(hint) > 0 /\ Len(hits) > 0 THEN <<hits[1]>>
       ELSE <<accts[1]>>

_pick_bank_account_id(accounts, hint) ==
    LET accts == ActiveBank(accounts)
        hits == SelectSeq(accts, LAMBDA a :
                   Contains(Lower(a.Name \o <<" ">> \o a.Code), Lower(hint)))
    IN IF Len(accts) = 0 THEN <<>>
       ELSE IF Len(hint) > 0 /\ Len(hits) > 0 THEN <<hits[1]>>
       ELSE <<accts[1]>>

\* services/payment_orchestrator.py pick_bank_account_id: candidates, then the
\* first candidate whose hay contains the hint, else candidates[0]
pick_bank_account_id(accounts, hint) ==
    LET candidates == SelectSeq(accounts, LAMBDA a : a.Type = "BANK" /\ a.Status = "ACTIVE")
        Hay(a) == Lower(a.Name \o <<" ">> \o a.Code)
        hits == SelectSeq(candidates, LAMBDA a : Contains(Hay(a), Lower(hint)))
    IN IF Len(candidates) = 0 THEN <<>>
       ELSE IF Len(hint) > 0 /\ Len(hits) > 0 THEN <<hits[1]>>
       ELSE <<candidates[1]>>

\* hashlib.sha256("|".join(parts)).hexdigest(), the hash taken as collision-free
_idem_key(parts) == <<"sha256", parts>>

\* json.dumps(req.model_dump(), sort_keys=True)
JsonDump(req) == <<"json", req>>

\* seed = _idem_key(hint or chosen Name or bank_account_id, json of the request)
SeedPerCall(req, chosen) ==
    _idem_key(<<IF Len(req.bank_account_hint) > 0 THEN req.bank_account_hint
                ELSE IF Len(chosen.Name) > 0 THEN chosen.Name
                ELSE chosen.AccountID,
                JsonDump(req), Len(calls)>>)
Seed(req, chosen) ==
    _idem_key(<<IF Len(req.bank_account_hint) > 0 THEN req.bank_account_hint
                ELSE IF Len(chosen.Name) > 0 THEN chosen.Name
                ELSE chosen.AccountID,
                JsonDump(req)>>)

PaymentsKeyPerAttempt(seed) == _idem_key(<<seed, "payments", BagCardinality(ledger)>>)
PaymentsKey(seed) == _idem_key(<<seed, "payments">>)
BankTxnsKey(seed) == _idem_key(<<seed, "banktxns">>)

\* ---- the environment: the account directory and the ledger ----
Account(id, name, status) ==
    [AccountID |-> id, Name |-> name, Code |-> <<"0", "9">>, Type |-> "BANK", Status |-> status]
AcctMain == Account("acc-main", <<"M", "a">>, "ACTIVE")
AcctMainArchived == Account("acc-main", <<"M", "a">>, "ARCHIVED")
AcctOps == Account("acc-ops", <<"O", "p">>, "ACTIVE")
Directories ==
    {<<AcctMain, AcctOps>>, <<AcctOps, AcctMainArchived>>, <<AcctMainArchived>>}
Hints == {<<>>, <<"m">>}

\* ---- bank account resolution on its own ----
\* a revenue account whose name contains the letters of the bank accounts' names
AcctSales == [Account("acc-sales", <<"M", "o">>, "ACTIVE") EXCEPT !.Type = "REVENUE"]
PickAccounts == {AcctMain, AcctMainArchived, AcctOps, AcctSales}
\* no hint, a letter of one name in either case, a digit of every code, the
\* blank between name and code, a letter of no account
PickHints == {<<>>, <<"m">>, <<"O">>, <<"9">>, <<"a", " ", "0">>, <<"x">>}

PickInit ==
    /\ bank_df = <<>> /\ receipts = <<>> /\ df = <<>> /\ recs = <<>>
    /\ used_receipt_ids = {} /\ idx = 0 /\ counters = NoCounters
    /\ enriched = <<>> /\ summary = <<>> /\ mpc = "idle"
    /\ v_payload = <<>> /\ v_route = <<>> /\ v_service = <<>>
    /\ calls = <<>> /\ ledger = EmptyBag /\ audit = <<>>
    /\ k_accounts \in SeqsUpTo(PickAccounts, MaxDir)
    /\ k_hint \in PickHints
    /\ k_route = <<>> /\ k_service = <<>>
    /\ s_columns = {} /\ s_df = <<>> /\ s_BankAmt = <<>>
    /\ d_columns = <<>> /\ d_detected = <<>>
    /\ a_file = <<>> /\ a_records = <<>> /\ a_pc = <<>> /\ a_next = <<>> /\ a_pending = <<>>
    /\ r_store = <<>> /\ r_done = <<>>
    /\ q_preview = <<>>

PickRoute ==
    /\ k_accounts # <<>> /\ k_route = <<>>
    /\ k_route' = <<_pick_bank_account_id(k_accounts, k_hint)>>
    /\ UNCHANGED <<k_accounts, k_hint, k_service>>
    /\ UNCHANGED <<mvars, vvars, pvars, svars, dvars, avars, rvars, qvars>>

PickService ==
    /\ k_accounts # <<>> /\ k_service = <<>>
    /\ k_service' = <<pick_bank_account_id(k_accounts, k_hint)>>
    /\ UNCHANGED <<k_accounts, k_hint, k_route>>
    /\ UNCHANGED <<mvars, vvars, pvars, svars, dvars, avars, rvars, qvars>>

PickNext == PickRoute \/ PickService

\* ---------------------------------------------------------------------------
\* The amount column of a bank table: match_receipts.py lines 185-208
\* ---------------------------------------------------------------------------
\* the columns are named by the role the detection gives them
SynthColumns == {"Amount", "Debit", "Credit"}
\* pd.read_csv: an empty cell of a column is NaN
SynthCells == {NaN, Val(3), Val(7)}
Absent == [tag |-> "absent", v |-> 0]   \* the table has no such column
SynthRows(cols) ==
    {r \in [Amount : SynthCells \cup {Absent},
            Debit : SynthCells \cup {Absent},
            Credit : SynthCells \cup {Absent}] :
        \A c \in SynthColumns : (r[c] = Absent) <=> (c \notin cols)}

\* _detect_amount_column: the name of the amount column, or None
_detect_amount_column(cols) == IF "Amount" \in cols THEN "Amount" ELSE NoneStr

\* _detect_debit_credit: (debit_col, credit_col), each a name or None
_detect_debit_credit(cols) ==
    <<IF "Debit" \in cols THEN "Debit" ELSE NoneStr,
      IF "Credit" \in cols THEN "Credit" ELSE NoneStr>>

\* Series - Series, scalar - Series, Series - scalar, element by element: a
\* missing operand (NaN in a float64 column, None in an object column) gives NaN
Minus(a, b) == IF IsVal(a) /\ IsVal(b) THEN Val(a.v - b.v) ELSE NaN

\* df[col].apply(_norm_amount)
NormColumn(table, col) ==
    ApplyColumn([i \in 1..Len(table) |-> _norm_amount(table[i][col])], NaN)

\* lines 197-200: a side whose column exists is the normalised column, a side
\* whose column does not exist is the scalar 0.0
SynthAmount(table, debit_col, credit_col) ==
    LET d == IF debit_col # NoneStr THEN NormColumn(table, debit_col)
             ELSE [i \in 1..Len(table) |-> Val(0)]
        c == IF credit_col # NoneStr THEN NormColumn(table, credit_col)
             ELSE [i \in 1..Len(table) |-> Val(0)]
    IN [i \in 1..Len(table) |-> Minus(c[i], d[i])]

\* lines 185-208: the column the amounts are taken from, then _BankAmt
BankAmt(table, cols) ==
    LET bank_amt_col == _detect_amount_column(cols)
        dc == _detect_debit_credit(cols)
    IN IF bank_amt_col # NoneStr
       THEN [raised |-> NoneStr, _BankAmt |-> NormColumn(table, bank_amt_col)]
       ELSE IF dc[1] # NoneStr \/ dc[2] # NoneStr
       THEN LET synth == SynthAmount(table, dc[1], dc[2])
            IN [raised |-> NoneStr,
                _BankAmt |-> ApplyColumn([i \in 1..Len(table) |-> _norm_amount(synth[i])], NaN)]
       ELSE [raised |-> "KeyError", _BankAmt |-> <<>>]

SynthInit ==
    /\ bank_df = <<>> /\ receipts = <<>> /\ df = <<>> /\ recs = <<>>
    /\ used_receipt_ids = {} /\ idx = 0 /\ counters = NoCounters
    /\ enriched = <<>> /\ summary = <<>> /\ mpc = "idle"
    /\ v_payload = <<>> /\ v_route = <<>> /\ v_service = <<>>
    /\ calls = <<>> /\ ledger = EmptyBag /\ audit = <<>>
    /\ k_accounts = <<>> /\ k_hint = <<>> /\ k_route = <<>> /\ k_service = <<>>
    /\ s_columns \in SUBSET SynthColumns
    /\ s_df \in SeqsUpTo(SynthRows(s_columns), MaxBank)
    /\ s_BankAmt = <<>>
    /\ d_columns = <<>> /\ d_detected = <<>>
    /\ a_file = <<>> /\ a_records = <<>> /\ a_pc = <<>> /\ a_next = <<>> /\ a_pending = <<>>
    /\ r_store = <<>> /\ r_done = <<>>
    /\ q_preview = <<>>

\* the run up to line 208
SynthRun ==
    /\ s_BankAmt = <<>>
    /\ s_BankAmt' = <<BankAmt(s_df, s_columns)>>
    /\ UNCHANGED <<s_columns, s_df>>
    /\ UNCHANGED <<mvars, vvars, pvars, kvars, dvars, avars, rvars, qvars>>

SynthNext == SynthRun

\* ---------------------------------------------------------------------------
\* Column detection: match_receipts.py lines 54-147 and 173-204
\* ---------------------------------------------------------------------------
\* Headers are sequences of one-character strings.
NoColumn == <<"None">>                 \* None as a column name
Headers ==
    {<<"D", "a", "t", "e">>, <<"*", " ", "D", "a", "t", "e", " ">>, <<"V", "a", "l", "u", "e", " ", " ", "D", "a", "t", "e">>, <<"U", "p", "d", "a", "t", "e", "d">>, <<"D", "A", "T", "E">>,
     <<"A", "m", "o", "u", "n", "t">>, <<"D", "e", "b", "i", "t">>, <<"M", "e", "m", "o">>}

RECURSIVE LStrip(_)
LStrip(n) == IF n # <<>> /\ Head(n) = " " THEN LStrip(Tail(n)) ELSE n
RECURSIVE RStrip(_)
RStrip(n) == IF n # <<>> /\ n[Len(n)] = " " THEN RStrip(SubSeq(n, 1, Len(n) - 1)) ELSE n
\* the leading markers of some exports (the two non-ASCII bullets of the code
\* are not in the alphabet of Headers)
Markers == {"*", "#"}
RECURSIVE DropMarkers(_)
DropMarkers(n) ==
    IF n # <<>> /\ Head(n) \in Markers THEN DropMarkers(LStrip(Tail(n))) ELSE n
\* " ".join(n.split()) on a name without blanks at its ends
RECURSIVE Collapse(_)
Collapse(n) ==
    IF Len(n) < 2 THEN n
    ELSE IF n[1] = " " /\ n[2] = " " THEN Collapse(Tail(n))
    ELSE <<n[1]>> \o Collapse(Tail(n))
\* _normalize_columns.clean
clean(name) == Collapse(DropMarkers(RStrip(LStrip(name))))
\* _normalize_columns: the cleaned headers, in the original order
_normalize_columns(columns) == [i \in 1..Len(columns) |-> clean(columns[i])]

\* the positions of the columns that pass a test
Cols(columns) == 1..Len(columns)
\* for c in columns: if test(c): return c
FirstColumn(columns, hits) ==
    IF hits = {} THEN NoColumn
    ELSE columns[CHOOSE i \in hits : \A j \in hits : i <= j]
\* for c in columns: if test(c): col = c   (no break)
LastColumn(columns, hits) ==
    IF hits = {} THEN NoColumn
    ELSE columns[CHOOSE i \in hits : \A j \in hits : i >= j]
ContainsAny(name, keys) == \E k \in keys : Contains(Lower(name), Lower(k))

DateNames ==
    {<<"D", "a", "t", "e">>, <<"T", "r", "a", "n", "s", "a", "c", "t", "i", "o", "n", " ", "D", "a", "t", "e">>, <<"P", "o", "s", "t", "i", "n", "g", " ", "D", "a", "t", "e">>, <<"V", "a", "l", "u", "e", " ", "D", "a", "t", "e">>, <<"S", "t", "a", "t", "e", "m", "e", "n", "t", " ", "D", "a", "t", "e">>}

\* a detection that never looks for an exact name
DetectDateLoose(columns) ==
    FirstColumn(columns, {i \in Cols(columns) : Contains(Lower(columns[i]), <<"d", "a", "t", "e">>)})

\* _detect_date_column: an exact candidate first, then a name containing "date"
_detect_date_column(columns) ==
    LET exact == FirstColumn(columns, {i \in Cols(columns) : columns[i] \in DateNames})
    IN IF exact # NoColumn THEN exact
       ELSE FirstColumn(columns, {i \in Cols(columns) : Contains(Lower(columns[i]), <<"d", "a", "t", "e">>)})

AmountNames == <<<<"A", "m", "o", "u", "n", "t">>, <<"T", "r", "a", "n", "s", "a", "c", "t", "i", "o", "n", " ", "A", "m", "o", "u", "n", "t">>, <<"A", "m", "t">>>>
\* _detect_amount_column on the cleaned headers: the first of the three names
\* that is a header, then the first header containing "amount"
DetectAmountColumn(columns) ==
    LET named == SelectSeq(AmountNames, LAMBDA n : \E i \in 1..Len(columns) : columns[i] = n)
    IN IF named # <<>> THEN named[1]
       ELSE FirstColumn(columns, {i \in Cols(columns) : Contains(Lower(columns[i]), <<"a", "m", "o", "u", "n", "t">>)})

DebitNames == {<<"D", "e", "b", "i", "t">>, <<"W", "i", "t", "h", "d", "r", "a", "w", "a", "l">>, <<"W", "i", "t", "h", "d", "r", "a", "w", "a", "l", "s">>, <<"O", "u", "t", "f", "l", "o", "w">>, <<"P", "a", "i", "d", " ", "O", "u", "t">>, <<"M", "o", "n", "e", "y", " ", "O", "u", "t">>}
CreditNames == {<<"C", "r", "e", "d", "i", "t">>, <<"D", "e", "p", "o", "s", "i", "t">>, <<"D", "e", "p", "o", "s", "i", "t", "s">>, <<"I", "n", "f", "l", "o", "w">>, <<"P", "a", "i", "d", " ", "I", "n">>, <<"M", "o", "n", "e", "y", " ", "I", "n">>}
DebitKeys == {<<"d", "e", "b", "i", "t">>, <<"w", "i", "t", "h", "d", "r", "a", "w">>, <<"o", "u", "t", "f", "l", "o", "w">>, <<"p", "a", "i", "d", " ", "o", "u", "t">>, <<"m", "o", "n", "e", "y", " ", "o", "u", "t">>}
CreditKeys == {<<"c", "r", "e", "d", "i", "t">>, <<"d", "e", "p", "o", "s", "i", "t">>, <<"i", "n", "f", "l", "o", "w">>, <<"p", "a", "i", "d", " ", "i", "n">>, <<"m", "o", "n", "e", "y", " ", "i", "n">>}
\* _detect_debit_credit on the cleaned headers: (debit_col, credit_col)
DetectDebitCredit(columns) ==
    LET debit == LastColumn(columns, {i \in Cols(columns) : columns[i] \in DebitNames})
        credit == LastColumn(columns, {i \in Cols(columns) : columns[i] \in CreditNames})
    IN <<IF debit # NoColumn THEN debit
         ELSE FirstColumn(columns, {i \in Cols(columns) : ContainsAny(columns[i], DebitKeys)}),
         IF credit # NoColumn THEN credit
         ELSE FirstColumn(columns, {i \in Cols(columns) : ContainsAny(columns[i], CreditKeys)})>>

\* an amount source that falls back to the first column
BankAmtColOrFirst(columns) ==
    IF DetectAmountColumn(columns) # NoColumn THEN DetectAmountColumn(columns)
    ELSE IF columns # <<>> THEN columns[1] ELSE NoColumn

\* lines 185-204: the column the amounts are read from, None for the KeyError
BankAmtCol(columns) ==
    LET bank_amt_col == DetectAmountColumn(columns)
        dc == DetectDebitCredit(columns)
        loose == IF bank_amt_col = NoColumn /\ dc[1] = NoColumn /\ dc[2] = NoColumn
                 THEN FirstColumn(columns, {i \in Cols(columns) : Contains(Lower(columns[i]), <<"a", "m", "o", "u", "n", "t">>)})
                 ELSE bank_amt_col
    IN IF loose = NoColumn /\ (dc[1] # NoColumn \/ dc[2] # NoColumn)
       THEN <<"_", "S", "y", "n", "t", "h", "A", "m", "o", "u", "n", "t">>
       ELSE loose

\* the tables and receipt lists of the runs whose headers vary: the rows under
\* Date and Amount are the cells of the detected date column and of the column
\* the amounts are read from
DetectTables == SeqsUpTo({[Date |-> Val(5), Amount |-> Val(-10)]}, MaxBank)
DetectReceipts == {MkReceipts(<<[id |-> "r1", amount |-> Val(10), date |-> Val(8)]>>)}

DetectInit ==
    /\ v_payload = <<>> /\ v_route = <<>> /\ v_service = <<>>
    /\ calls = <<>> /\ ledger = EmptyBag /\ audit = <<>>
    /\ k_accounts = <<>> /\ k_hint = <<>> /\ k_route = <<>> /\ k_service = <<>>
    /\ s_columns = {} /\ s_df = <<>> /\ s_BankAmt = <<>>
    /\ a_file = <<>> /\ a_records = <<>> /\ a_pc = <<>> /\ a_next = <<>> /\ a_pending = <<>>
    /\ r_store = <<>> /\ r_done = <<>>
    /\ q_preview = <<>>
    /\ d_columns \in SeqsUpTo(Headers, MaxCols)
    /\ d_detected = <<>>
    /\ bank_df \in DetectTables
    /\ receipts \in DetectReceipts
    /\ df = <<>>
    /\ recs = <<>>
    /\ used_receipt_ids = {}
    /\ idx = 0
    /\ counters = NoCounters
    /\ enriched = <<>>
    /\ summary = <<>>
    /\ mpc = "detect"

\* lines 173-204: the headers are cleaned on a copy, the date column and the
\* amount source are detected, and a KeyError ends the run when one is missing
MatchDetect ==
    /\ mpc = "detect"
    /\ LET columns == _normalize_columns(d_columns)
           bank_date_col == _detect_date_column(columns)
           bank_amt_col == IF bank_date_col = NoColumn THEN NoColumn ELSE BankAmtCol(columns)
       IN /\ d_detected' = <<[bank_date_col |-> bank_date_col, bank_amt_col |-> bank_amt_col]>>
          /\ mpc' = IF bank_date_col = NoColumn \/ bank_amt_col = NoColumn
                    THEN "KeyError" ELSE "start"
    /\ UNCHANGED <<bank_df, receipts, df, recs, used_receipt_ids, idx, counters,
                   enriched, summary, d_columns>>
    /\ UNCHANGED <<vvars, pvars, kvars, svars, avars, rvars, qvars>>

DetectNext == MatchDetect \/ MatchStart \/ MatchRow \/ MatchFinish

\* ---------------------------------------------------------------------------
\* The audit log file under several writers: xero_data.py lines 298-304
\* ---------------------------------------------------------------------------
\* Each writer is one payments_post call that has reached _append_audit, in a
\* worker of its own.  A line is json.dumps(r) + "\n": two pieces, the text
\* and the newline.  The file is opened with mode "a"; every write the file
\* object passes to the operating system lands at the end of the file in one
\* piece.
Writers == 1..MaxCalls
Piece(w, k, piece) == [w |-> w, k |-> k, piece |-> piece]
AuditLine(w, k) == <<Piece(w, k, "json"), Piece(w, k, "\n")>>
\* what the log holds before the calls: nothing, or the line of an older call
OldLogs == {<<>>, AuditLine(0, 1)}

\* a file object that hands over its buffer byte by byte
RawWriteBytes(pending) == <<Head(pending)>>

\* what one write to the operating system takes from the buffer.  The text
\* layer hands over whole f.write arguments and the buffered layer writes what
\* it was handed without cutting it, so it is always the whole buffer.
RawWrite(pending) == pending

AuditInit ==
    /\ bank_df = <<>> /\ receipts = <<>> /\ df = <<>> /\ recs = <<>>
    /\ used_receipt_ids = {} /\ idx = 0 /\ counters = NoCounters
    /\ enriched = <<>> /\ summary = <<>> /\ mpc = "idle"
    /\ v_payload = <<>> /\ v_route = <<>> /\ v_service = <<>>
    /\ calls = <<>> /\ ledger = EmptyBag /\ audit = <<>>
    /\ k_accounts = <<>> /\ k_hint = <<>> /\ k_route = <<>> /\ k_service = <<>>
    /\ s_columns = {} /\ s_df = <<>> /\ s_BankAmt = <<>>
    /\ d_columns = <<>> /\ d_detected = <<>>
    /\ a_file \in OldLogs
    /\ a_records \in [Writers -> 1..MaxItems]
    /\ a_pc = [w \in Writers |-> "start"]
    /\ a_next = [w \in Writers |-> 1]
    /\ a_pending = [w \in Writers |-> <<>>]
    /\ r_store = <<>> /\ r_done = <<>>
    /\ q_preview = <<>>

\* lines 301-302: mkdir, open(mode "a")
AuditOpen(w) ==
    /\ a_pc[w] = "start"
    /\ a_pc' = [a_pc EXCEPT ![w] = "open"]
    /\ UNCHANGED <<a_file, a_records, a_next, a_pending>>
    /\ UNCHANGED <<mvars, vvars, pvars, kvars, svars, dvars, rvars, qvars>>

\* lines 303-304: f.write(json.dumps(r) + "\n") puts the line into the buffer
AuditWrite(w) ==
    /\ a_pc[w] = "open" /\ a_next[w] <= a_records[w]
    /\ a_pending' = [a_pending EXCEPT ![w] = @ \o AuditLine(w, a_next[w])]
    /\ a_next' = [a_next EXCEPT ![w] = @ + 1]
    /\ UNCHANGED <<a_file, a_records, a_pc>>
    /\ UNCHANGED <<mvars, vvars, pvars, kvars, svars, dvars, rvars, qvars>>

\* the file object writes its buffer out: when it is full (the size at which
\* that happens depends on the build and the file system) and before the close
AuditFlush(w) ==
    /\ a_pc[w] = "open" /\ a_pending[w] # <<>>
    /\ a_file' = a_file \o RawWrite(a_pending[w])
    /\ a_pending' = [a_pending EXCEPT
                        ![w] = SubSeq(@, Len(RawWrite(@)) + 1, Len(@))]
    /\ UNCHANGED <<a_records, a_pc, a_next>>
    /\ UNCHANGED <<mvars, vvars, pvars, kvars, svars, dvars, rvars, qvars>>

\* the end of the with block: the file is closed once the buffer is written out
AuditClose(w) ==
    /\ a_pc[w] = "open" /\ a_next[w] > a_records[w] /\ a_pending[w] = <<>>
    /\ a_pc' = [a_pc EXCEPT ![w] = "closed"]
    /\ UNCHANGED <<a_file, a_records, a_next, a_pending>>
    /\ UNCHANGED <<mvars, vvars, pvars, kvars, svars, dvars, rvars, qvars>>

AuditNext ==
    \E w \in Writers : AuditOpen(w) \/ AuditWrite(w) \/ AuditFlush(w) \/ AuditClose(w)

\* ---------------------------------------------------------------------------
\* The matching endpoint called several times: recon_receipts.py lines 16-45
\* ---------------------------------------------------------------------------
RunTables ==
    SeqsUpTo({[Date |-> Val(5), Amount |-> Val(-10)], [Date |-> Val(5), Amount |-> Val(12)]},
             MaxBank)
RunStores ==
    {MkReceipts(<<[id |-> "r1", amount |-> Val(10), date |-> Val(8)]>>),
     MkReceipts(<<[id |-> "r1", amount |-> Val(10), date |-> Val(8)],
                  [id |-> "r2", amount |-> Val(-11), date |-> Val(6)]>>)}

\* the receipts no finished call has matched
ListUnmatched(store) ==
    SelectSeq(store, LAMBDA r :
        \A n \in 1..Len(r_done) : \A i \in 1..Len(r_done[n].enriched) :
            r_done[n].enriched[i].MatchedReceiptID # r.id)

\* receipt_store.list_receipts: the whole store
list_receipts(store) == store

RunsInit ==
    /\ v_payload = <<>> /\ v_route = <<>> /\ v_service = <<>>
    /\ calls = <<>> /\ ledger = EmptyBag /\ audit = <<>>
    /\ k_accounts = <<>> /\ k_hint = <<>> /\ k_route = <<>> /\ k_service = <<>>
    /\ s_columns = {} /\ s_df = <<>> /\ s_BankAmt = <<>>
    /\ d_columns = <<>> /\ d_detected = <<>>
    /\ a_file = <<>> /\ a_records = <<>> /\ a_pc = <<>> /\ a_next = <<>> /\ a_pending = <<>>
    /\ r_store \in RunStores
    /\ r_done = <<>>
    /\ q_preview = <<>>
    /\ bank_df = <<>> /\ receipts = <<>> /\ df = <<>> /\ recs = <<>>
    /\ used_receipt_ids = {} /\ idx = 0 /\ counters = NoCounters
    /\ enriched = <<>> /\ summary = <<>>
    /\ mpc = "idle"

\* lines 17-33: the table is read, the receipts are listed and the run is
\* entered with locals of its own
MatchCall ==
    /\ mpc = "idle" /\ Len(r_done) < MaxRuns
    /\ bank_df' \in RunTables
    /\ receipts' = list_receipts(r_store)
    /\ mpc' = "start"
    /\ UNCHANGED <<df, recs, used_receipt_ids, idx, counters, enriched, summary>>
    /\ UNCHANGED <<vvars, pvars, kvars, svars, dvars, avars, rvars, qvars>>

\* lines 35-45: the export is written and the call answers; the frame of the
\* run is gone
MatchReturn ==
    /\ mpc = "done"
    /\ r_done' = Append(r_done, [bank_df |-> bank_df, enriched |-> enriched, summary |-> summary])
    /\ bank_df' = <<>> /\ receipts' = <<>> /\ df' = <<>> /\ recs' = <<>>
    /\ idx' = 0 /\ counters' = NoCounters /\ enriched' = <<>> /\ summary' = <<>>
    /\ mpc' = "idle"
    /\ UNCHANGED <<used_receipt_ids, r_store>>
    /\ UNCHANGED <<vvars, pvars, kvars, svars, dvars, avars, qvars>>

RunsNext == MatchCall \/ MatchStart \/ MatchRow \/ MatchFinish \/ MatchReturn

\* what the ledger may answer to a submission it has not booked before
OkStatusesLax == {200, 201, 400}
OkStatuses == {200, 201}
LedgerAnswers ==
    {[status |-> 200, body |-> "body"], [status |-> 201, body |-> "empty"],
     [status |-> 400, body |-> "body"]}
\* the ledger has booked a submission with this key
Booked(key) == \E s \in BagToSet(ledger) : s.key = key /\ s.booked
\* a repeated key is a no-op: the ledger answers with success and books nothing
Replay == [status |-> 200, body |-> "body"]

\* ---- the batches that are posted ----
LineIds == <<"line-1", "line-2">>
PostLineKinds == {"two-invoices", "spend", "refund-invoice"}
PostLine(kind, i) ==
    CASE kind = "two-invoices" ->
           Line(LineIds[i], 1000, "invoices", List(Allocations(<<500, 500>>)), NoNonInvoice)
      [] kind = "spend" ->
           Line(LineIds[i], -1000, "non_invoice", NoList,
                [tag |-> "val", is_spend |-> TRUE, account_code |-> "4205",
                 account_id |-> NoneStr, contact_id |-> "contact-1", description |-> NoneStr])
      [] kind = "refund-invoice" ->
           Line(LineIds[i], -1000, "invoices", List(Allocations(<<1000>>)), NoNonInvoice)
      [] kind = "spend-no-contact" ->
           Line(LineIds[i], -1000, "non_invoice", NoList,
                [tag |-> "val", is_spend |-> TRUE, account_code |-> "4205",
                 account_id |-> NoneStr, contact_id |-> NoneStr, description |-> NoneStr])
      [] kind = "no-allocations" ->
           Line(LineIds[i], 1000, "invoices", NoList, NoNonInvoice)
DefaultConfig == [require_exact_totals |-> TRUE, amount_tolerance |-> DefaultTolerance]
PostBatches ==
    {<<>>, <<"two-invoices">>, <<"spend">>, <<"two-invoices", "spend">>,
     <<"spend", "refund-invoice">>}
PostRequest(h, kinds) ==
    [bank_account_hint |-> h,
     lines |-> [i \in 1..Len(kinds) |-> PostLine(kinds[i], i)],
     config |-> DefaultConfig]
\* every batch without a hint, and the mixed batch with each hint
PostRequests ==
    {PostRequest(<<>>, kinds) : kinds \in PostBatches}
        \cup {PostRequest(h, <<"two-invoices", "spend">>) : h \in Hints}

NoResults == [payments_result |-> "None", banktxns_result |-> "None"]
\* bool(results[...]): None and an empty JSON object are falsy
Truthy(result) == result = "body"

\* audit_records built from validated["preview"] after the submissions
AuditRecords(c, preview, results) ==
    [i \in 1..Len(preview) |->
        [call |-> c,
         bank_line_id |-> preview[i].bank_line_id,
         type |-> preview[i].type,
         request |-> preview[i].payload,
         xero_response_keys |->
             [payments |-> Truthy(results.payments_result),
              banktxns |-> Truthy(results.banktxns_result)]]]

\* _append_audit: the records are appended to the end of the file
\* the file opened for writing instead of appending
AuditOverwritten(log, records) == records
_append_audit(log, records) == log \o records

\* `if validated["payments"]:` and `if validated["banktxns"]:`
NonEmptyAlways(list) == TRUE
NonEmpty(list) == Len(list) > 0

\* ---- payments_post as a state machine ----
\* A call runs from its arrival to its first await on the ledger in one step,
\* and from each ledger answer to the next await (or to its end) in one step.
CallRecord(req, account, validated, seed, pc, error) ==
    [req |-> req, account |-> account, validated |-> validated, seed |-> seed,
     results |-> NoResults, pc |-> pc, error |-> error]

PostInit ==
    /\ bank_df = <<>> /\ receipts = <<>> /\ df = <<>> /\ recs = <<>>
    /\ used_receipt_ids = {} /\ idx = 0 /\ counters = NoCounters
    /\ enriched = <<>> /\ summary = <<>> /\ mpc = "idle"
    /\ v_payload = <<>> /\ v_route = <<>> /\ v_service = <<>>
    /\ calls = <<>> /\ ledger = EmptyBag /\ audit = <<>>
    /\ k_accounts = <<>> /\ k_hint = <<>> /\ k_route = <<>> /\ k_service = <<>>
    /\ s_columns = {} /\ s_df = <<>> /\ s_BankAmt = <<>>
    /\ d_columns = <<>> /\ d_detected = <<>>
    /\ a_file = <<>> /\ a_records = <<>> /\ a_pc = <<>> /\ a_next = <<>> /\ a_pending = <<>>
    /\ r_store = <<>> /\ r_done = <<>>
    /\ q_preview = <<>>

\* lines 342-356: the directory is read, the account resolved, the batch
\* validated and built, the seed derived
PostStart(req, accounts) ==
    /\ Len(calls) < MaxCalls
    /\ LET pick == _pick_bank_account_id(accounts, req.bank_account_hint)
           validated == _validate_and_build(req, pick[1].AccountID)
           nothing == Built(<<>>, <<>>, <<>>)
       IN IF pick = <<>>
          THEN /\ calls' = Append(calls, CallRecord(req, pick, nothing, <<>>, "failed", "NoAccount"))
               /\ UNCHANGED audit
          ELSE IF validated.err # NoError
          THEN /\ calls' = Append(calls, CallRecord(req, pick, validated, <<>>, "failed", validated.err))
               /\ UNCHANGED audit
          ELSE IF NonEmpty(validated.payments)
          THEN /\ calls' = Append(calls, CallRecord(req, pick, validated, Seed(req, pick[1]),
                                                    "payments", NoError))
               /\ UNCHANGED audit
          ELSE IF NonEmpty(validated.banktxns)
          THEN /\ calls' = Append(calls, CallRecord(req, pick, validated, Seed(req, pick[1]),
                                                    "banktxns", NoError))
               /\ UNCHANGED audit
          ELSE /\ calls' = Append(calls, CallRecord(req, pick, validated, Seed(req, pick[1]),
                                                    "returned", NoError))
               /\ audit' = _append_audit(audit, AuditRecords(Len(calls) + 1, validated.preview, NoResults))
    /\ UNCHANGED ledger
    /\ UNCHANGED <<mvars, vvars, kvars, svars, dvars, avars, rvars, qvars>>

\* one submission as the ledger sees it
Submission(c, kind, key, body, ans) ==
    [call |-> c, kind |-> kind, key |-> key, body |-> body, status |-> ans.status,
     booked |-> ans.status \in OkStatuses /\ ~Booked(key)]

\* lines 358-362 and what follows the answer: _post_payments raises on a status
\* other than 200 and 201; with no bank transactions the audit is written
PostPayments(c) ==
    /\ calls[c].pc = "payments"
    /\ LET key == PaymentsKey(calls[c].seed)
           v == calls[c].validated
       IN \E ans \in IF Booked(key) THEN {Replay} ELSE LedgerAnswers :
            /\ ledger' = ledger (+) SetToBag({Submission(c, "payments", key, v.payments, ans)})
            /\ IF ans.status \notin OkStatuses
               THEN /\ calls' = [calls EXCEPT ![c].pc = "failed", ![c].error = "LedgerRejected"]
                    /\ UNCHANGED audit
               ELSE LET results == [calls[c].results EXCEPT !.payments_result = ans.body]
                    IN IF NonEmpty(v.banktxns)
                       THEN /\ calls' = [calls EXCEPT ![c].pc = "banktxns", ![c].results = results]
                            /\ UNCHANGED audit
                       ELSE /\ calls' = [calls EXCEPT ![c].pc = "returned", ![c].results = results]
                            /\ audit' = _append_audit(audit, AuditRecords(c, v.preview, results))
    /\ UNCHANGED <<mvars, vvars, kvars, svars, dvars, avars, rvars, qvars>>

\* lines 364-392: _post_bank_transactions, then the audit records and the return
PostBankTxns(c) ==
    /\ calls[c].pc = "banktxns"
    /\ LET key == BankTxnsKey(calls[c].seed)
           v == calls[c].validated
       IN \E ans \in IF Booked(key) THEN {Replay} ELSE LedgerAnswers :
            /\ ledger' = ledger (+) SetToBag({Submission(c, "banktxns", key, v.banktxns, ans)})
            /\ IF ans.status \notin OkStatuses
               THEN /\ calls' = [calls EXCEPT ![c].pc = "failed", ![c].error = "LedgerRejected"]
                    /\ UNCHANGED audit
               ELSE LET results == [calls[c].results EXCEPT !.banktxns_result = ans.body]
                    IN /\ calls' = [calls EXCEPT ![c].pc = "returned", ![c].results = results]
                       /\ audit' = _append_audit(audit, AuditRecords(c, v.preview, results))
    /\ UNCHANGED <<mvars, vvars, kvars, svars, dvars, avars, rvars, qvars>>

PostNext ==
    \/ \E req \in PostRequests, accounts \in Directories : PostStart(req, accounts)
    \/ \E c \in 1..Len(calls) : PostPayments(c)
    \/ \E c \in 1..Len(calls) : PostBankTxns(c)

\* ---------------------------------------------------------------------------
\* POST /payments/preview next to POST /payments/post: xero_data.py 322-339
\* ---------------------------------------------------------------------------
\* the log with the records of a preview appended to it
PreviewLogged(log, items) ==
    _append_audit(log, [i \in 1..Len(items) |->
        [call |-> 0, bank_line_id |-> items[i].bank_line_id, type |-> items[i].type,
         request |-> items[i].payload,
         xero_response_keys |-> [payments |-> FALSE, banktxns |-> FALSE]]])

\* the audit log after payments_preview: the handler has no call of
\* _append_audit, the log is what it was
PreviewLog(log, items) == log

\* lines 330-339: the answer of payments_preview
PreviewAnswer(pick, validated) ==
    [error |-> NoError,
     bank_account_id |-> pick[1].AccountID,
     bank_account_name |-> pick[1].Name,
     to_post_counts |-> [payments |-> Len(validated.payments),
                         banktxns |-> Len(validated.banktxns)],
     items |-> validated.preview]
PreviewError(err, line) ==
    [error |-> err, bank_account_id |-> line, bank_account_name |-> <<>>,
     to_post_counts |-> [payments |-> 0, banktxns |-> 0], items |-> <<>>]

\* the one batch that is posted around the previews
PreviewPosted == PostRequest(<<>>, <<"two-invoices", "spend">>)
\* the batches that are previewed: one that passes validation, one that fails
PreviewRequests == {PreviewPosted, PostRequest(<<>>, <<"spend", "refund-invoice">>)}

PreviewInit ==
    /\ bank_df = <<>> /\ receipts = <<>> /\ df = <<>> /\ recs = <<>>
    /\ used_receipt_ids = {} /\ idx = 0 /\ counters = NoCounters
    /\ enriched = <<>> /\ summary = <<>> /\ mpc = "idle"
    /\ v_payload = <<>> /\ v_route = <<>> /\ v_service = <<>>
    /\ calls = <<>> /\ ledger = EmptyBag /\ audit = <<>>
    /\ k_accounts = <<>> /\ k_hint = <<>> /\ k_route = <<>> /\ k_service = <<>>
    /\ s_columns = {} /\ s_df = <<>> /\ s_BankAmt = <<>>
    /\ d_columns = <<>> /\ d_detected = <<>>
    /\ a_file = <<>> /\ a_records = <<>> /\ a_pc = <<>> /\ a_next = <<>> /\ a_pending = <<>>
    /\ r_store = <<>> /\ r_done = <<>>
    /\ q_preview = <<>>

\* lines 323-339: the directory is read, the account resolved, the batch
\* validated and built, and the answer returned
PreviewBatch(req, accounts) ==
    /\ LET pick == _pick_bank_account_id(accounts, req.bank_account_hint)
           validated == _validate_and_build(req, pick[1].AccountID)
       IN IF pick = <<>>
          THEN /\ q_preview' = <<PreviewError("NoAccount", NoneStr)>>
               /\ audit' = audit
          ELSE IF validated.err # NoError
          THEN /\ q_preview' = <<PreviewError(validated.err, validated.line)>>
               /\ audit' = audit
          ELSE /\ q_preview' = <<PreviewAnswer(pick, validated)>>
               /\ audit' = PreviewLog(audit, validated.preview)
    /\ UNCHANGED <<calls, ledger>>
    /\ UNCHANGED <<mvars, vvars, kvars, svars, dvars, avars, rvars>>

PreviewNext ==
    \/ \E accounts \in Directories : PostStart(PreviewPosted, accounts)
    \/ \E c \in 1..Len(calls) : PostPayments(c)
    \/ \E c \in 1..Len(calls) : PostBankTxns(c)
    \/ \E req \in PreviewRequests, accounts \in Directories : PreviewBatch(req, accounts)


\* ---------------------------------------------------------------------------
\* payments_post on batches with a line that is not valid
\* ---------------------------------------------------------------------------
AbortBatches ==
    {<<"two-invoices", "spend">>, <<"two-invoices", "no-allocations">>,
     <<"two-invoices", "spend-no-contact">>, <<"spend", "refund-invoice">>}
AbortRequests == {PostRequest(<<>>, kinds) : kinds \in AbortBatches}
AbortNext ==
    \/ \E req \in AbortRequests, accounts \in Directories : PostStart(req, accounts)
    \/ \E c \in 1..Len(calls) : PostPayments(c)
    \/ \E c \in 1..Len(calls) : PostBankTxns(c)

\* ---------------------------------------------------------------------------
\* Specifications
\* ---------------------------------------------------------------------------
SpecMatch == MatchInit /\ [][MatchNext]_vars

SpecValidate == ValidateInit /\ [][ValidateNext]_vars

SpecPost == PostInit /\ [][PostNext]_vars
SpecPick == PickInit /\ [][PickNext]_vars
SpecSynth == SynthInit /\ [][SynthNext]_vars
SpecDetect == DetectInit /\ [][DetectNext]_vars
SpecAudit == AuditInit /\ [][AuditNext]_vars
SpecRuns == RunsInit /\ [][RunsNext]_vars
SpecPreview == PreviewInit /\ [][PreviewNext]_vars
SpecAbort == PostInit /\ [][AbortNext]_vars

\* ---------------------------------------------------------------------------
\* Posting claims
\* ---------------------------------------------------------------------------
Subs == BagToSet(ledger)
SubsOf(c, kind) == {s \in Subs : s.call = c /\ s.kind = kind}
\* how many ledger calls call c has made for the kind
Sent(c, kind) == BagCardinality([s \in SubsOf(c, kind) |-> CopiesIn(s, ledger)])
Accepted(s) == s.status \in 200..299
ListOf(c, kind) == IF kind = "payments" THEN calls[c].validated.payments
                   ELSE calls[c].validated.banktxns
Kinds == {"payments", "banktxns"}
\* the same batch with the same account-resolution outcome
SameBatch(c, d) == calls[c].req = calls[d].req /\ calls[c].account = calls[d].account
Audited(c) == \E i \in 1..Len(audit) : audit[i].call = c
LedgerFailed(c) == calls[c].pc = "failed" /\ calls[c].error = "LedgerRejected"

\* C4: two calls with an identical batch and an identical account-resolution
\* outcome tag their payments submissions with the same key and their banktxns
\* submissions with the same key, whatever calls and ledger answers came before.
C4_SameBatchSameKeys ==
    \A s \in Subs : \A t \in Subs :
        (s.kind = t.kind /\ SameBatch(s.call, t.call)) => s.key = t.key

\* two calls of one batch have both got as far as the bank transactions, the
\* first one rejected there and the second one accepted
C4_Witness ==
    \E s \in Subs : \E t \in Subs :
        /\ s.call < t.call /\ SameBatch(s.call, t.call)
        /\ s.kind = "banktxns" /\ t.kind = "banktxns"
        /\ ~Accepted(s) /\ Accepted(t)
        /\ Sent(s.call, "payments") = 1 /\ Sent(t.call, "payments") = 1

\* C5: with a ledger that treats a repeated key as a no-op, the calls that post
\* an identical batch with the same account-resolution outcome book each
\* payload of the batch at most once between them.
C5_NoPayloadBookedTwice ==
    \A s \in Subs : \A t \in Subs :
        (s.booked /\ t.booked /\ s.kind = t.kind /\ SameBatch(s.call, t.call))
            => (s = t /\ CopiesIn(s, ledger) = 1)

\* a batch retried after its bank transactions were rejected: the payments are
\* replayed without being booked again, the bank transactions are booked
C5_Witness ==
    \E c \in 1..Len(calls) : \E d \in 1..Len(calls) :
        /\ c < d /\ SameBatch(c, d) /\ LedgerFailed(c)
        /\ \E s \in SubsOf(c, "payments") : s.booked
        /\ \E s \in SubsOf(c, "banktxns") : ~Accepted(s)
        /\ \E s \in SubsOf(d, "payments") : Accepted(s) /\ ~s.booked
        /\ \E s \in SubsOf(d, "banktxns") : s.booked

\* C6: a call one of whose submissions got a non-2xx answer has failed with
\* LedgerRejected and has no audit record; a call has audit records only when
\* it returned after every applicable submission was accepted.
C6_RejectionLeavesNoAudit ==
    \A c \in 1..Len(calls) :
        /\ (\E s \in Subs : s.call = c /\ ~Accepted(s)) => (LedgerFailed(c) /\ ~Audited(c))
        /\ Audited(c) =>
              /\ calls[c].pc = "returned"
              /\ \A kind \in Kinds :
                    Len(ListOf(c, kind)) > 0 => \E s \in SubsOf(c, kind) : Accepted(s)

\* one call was rejected at its second submission and left no audit record,
\* another call returned and left its records
C6_Witness ==
    \E c \in 1..Len(calls) : \E d \in 1..Len(calls) :
        /\ LedgerFailed(c) /\ ~Audited(c)
        /\ \E s \in SubsOf(c, "payments") : Accepted(s)
        /\ \E s \in SubsOf(c, "banktxns") : ~Accepted(s)
        /\ calls[d].pc = "returned" /\ Audited(d)

\* C7: no call is in the state where the ledger accepted its payments
\* submission, rejected its bank-transactions submission, and the batch is
\* reported failed.
C7_NoPartialCommit ==
    ~ \E c \in 1..Len(calls) :
        /\ \E s \in SubsOf(c, "payments") : Accepted(s)
        /\ \E s \in SubsOf(c, "banktxns") : ~Accepted(s)
        /\ calls[c].pc = "failed"

PassedValidation(c) == calls[c].error \in {NoError, "LedgerRejected"}
Finished(c) == calls[c].pc \in {"returned", "failed"}
KeyOf(c, kind) == IF kind = "payments" THEN PaymentsKey(calls[c].seed)
                  ELSE BankTxnsKey(calls[c].seed)
\* every submission of the kind by call c carries the kind's key and the list
Tagged(c, kind) ==
    \A s \in SubsOf(c, kind) : s.key = KeyOf(c, kind) /\ s.body = ListOf(c, kind)

\* C10 as stated: in a call that passed validation and ran to its end, each
\* list was submitted in exactly one call tagged with its key if and only if it
\* is non-empty.
C10_SubmittedIffNonEmpty ==
    \A c \in 1..Len(calls) : \A kind \in Kinds :
        (PassedValidation(c) /\ Finished(c)) =>
            /\ Sent(c, kind) = (IF Len(ListOf(c, kind)) > 0 THEN 1 ELSE 0)
            /\ Tagged(c, kind)

PaymentsWentThrough(c) ==
    Len(ListOf(c, "payments")) = 0 \/ \E s \in SubsOf(c, "payments") : Accepted(s)

\* C10 amended: the payments list is submitted in exactly one tagged call iff
\* it is non-empty; the bank-transaction list is submitted in exactly one
\* tagged call iff it is non-empty and the payments submission, if there was
\* one, was accepted; an empty list is never submitted, at any point of a call.
C10_SubmittedIffNonEmptyAndReached ==
    \A c \in 1..Len(calls) :
        /\ \A kind \in Kinds :
              /\ Sent(c, kind) <= (IF Len(ListOf(c, kind)) > 0 THEN 1 ELSE 0)
              /\ Tagged(c, kind)
        /\ (PassedValidation(c) /\ Finished(c)) =>
              /\ Sent(c, "payments") = (IF Len(ListOf(c, "payments")) > 0 THEN 1 ELSE 0)
              /\ Sent(c, "banktxns") =
                    (IF Len(ListOf(c, "banktxns")) > 0 /\ PaymentsWentThrough(c) THEN 1 ELSE 0)

\* a mixed batch whose payments were rejected, so that its bank transactions
\* were never submitted, and a returned call that had only bank transactions
\* and submitted only those
C10_Witness ==
    \E c \in 1..Len(calls) : \E d \in 1..Len(calls) :
        /\ LedgerFailed(c) /\ Len(ListOf(c, "banktxns")) > 0
        /\ Sent(c, "payments") = 1 /\ Sent(c, "banktxns") = 0
        /\ calls[d].pc = "returned"
        /\ Len(ListOf(d, "payments")) = 0 /\ Sent(d, "payments") = 0
        /\ Sent(d, "banktxns") = 1

\* the calls that return in this step
Returning == {c \in 1..Len(calls') :
                 calls'[c].pc = "returned" /\ (c > Len(calls) \/ calls[c].pc # "returned")}

\* C11: a call that returns leaves the audit log as it was, followed by one
\* record per preview item of its batch, in preview order, each with the
\* item's bank_line_id, type and payload; no other step touches the log.
C11_AuditAppendsPreview ==
    [][IF Returning = {} THEN audit' = audit
       ELSE \E c \in Returning :
              LET pv == calls'[c].validated.preview
              IN /\ Len(audit') = Len(audit) + Len(pv)
                 /\ SubSeq(audit', 1, Len(audit)) = audit
                 /\ \A i \in 1..Len(pv) :
                       /\ audit'[Len(audit) + i].bank_line_id = pv[i].bank_line_id
                       /\ audit'[Len(audit) + i].type = pv[i].type
                       /\ audit'[Len(audit) + i].request = pv[i].payload
      ]_vars

\* the log holds the records of two returned calls, the later ones behind
\* those of a batch with three preview items
C11_Witness ==
    /\ Len(audit) > 3
    /\ audit[1].call # audit[Len(audit)].call
    /\ Len(calls[audit[1].call].validated.preview) = 3
    /\ \A c \in {audit[1].call, audit[Len(audit)].call} : calls[c].pc = "returned"

AuditOf(c) == SelectSeq(audit, LAMBDA r : r.call = c)

\* C12: a call that returned has exactly one audit record per line of its
\* batch, each line's bank_line_id on exactly one record.
C12_OneAuditRecordPerLineItem ==
    \A c \in 1..Len(calls) :
        calls[c].pc = "returned" =>
            /\ Len(AuditOf(c)) = Len(calls[c].req.lines)
            /\ \A i \in 1..Len(calls[c].req.lines) :
                  Cardinality({k \in 1..Len(AuditOf(c)) :
                      AuditOf(c)[k].bank_line_id = calls[c].req.lines[i].bank_line_id}) = 1

\* ---------------------------------------------------------------------------
\* Bank account resolution
\* ---------------------------------------------------------------------------
\* positions of the active bank-type accounts, and of those among them whose
\* name and code (as searched: the name, a blank, the code) contain the hint
ActivePositions ==
    {i \in 1..Len(k_accounts) : k_accounts[i].Type = "BANK" /\ k_accounts[i].Status = "ACTIVE"}
HintPositions ==
    {i \in ActivePositions :
        Len(k_hint) > 0
        /\ LET hay == Lower(k_accounts[i].Name \o <<" ">> \o k_accounts[i].Code)
               h == Lower(k_hint)
           IN \E j \in 1..Len(hay) : j + Len(h) - 1 <= Len(hay)
                                     /\ \A n \in 1..Len(h) : hay[j + n - 1] = h[n]}
First(S) == CHOOSE i \in S : \A j \in S : i <= j

Resolved(result) ==
    result # <<>> =>
        /\ result[1] = <<>> <=> ActivePositions = {}
        /\ ActivePositions # {} =>
              /\ result[1] = <<k_accounts[IF HintPositions # {} THEN First(HintPositions)
                                          ELSE First(ActivePositions)]>>
              /\ result[1][1].Type = "BANK" /\ result[1][1].Status = "ACTIVE"

\* C18: resolution returns the first active bank-type account containing the
\* hint, else (no hint, or no such account) the first active bank-type account;
\* it fails with NoAccount exactly when there is no active bank-type account.
C18_Resolved == Resolved(k_route) /\ Resolved(k_service)

\* the hint skips an active bank account in front and picks the second one
C18_Witness ==
    /\ k_route # <<>> /\ k_service # <<>>
    /\ Len(k_accounts) = 2 /\ ActivePositions = {1, 2} /\ HintPositions = {2}
    /\ k_route[1] = <<k_accounts[2]>> /\ k_service[1] = <<k_accounts[2]>>

\* C19: every bank record whose amount did not parse, whatever the other rows
\* hold, is given NoAmount, no receipt and no candidate list.
C19_UnparseableIsNoAmount ==
    \A i \in 1..idx :
        ~IsVal(bank_df[i].Amount) =>
            /\ df[i].ReviewStatus_Receipt = NO_AMOUNT
            /\ df[i].MatchedReceiptID = NoneStr
            /\ df[i].ReceiptCandidates = NoList


\* ---------------------------------------------------------------------------
\* Debit / credit tables
\* ---------------------------------------------------------------------------
Synthesized == s_BankAmt # <<>> /\ "Amount" \notin s_columns /\ s_columns # {}
\* a side that is missing, as a column or in the row, counts 0
Side(cell) == IF IsVal(cell) THEN cell.v ELSE 0
OneSided(r) == IsVal(r.Debit) # IsVal(r.Credit)
CreditMinusDebit(rows) ==
    /\ s_BankAmt[1].raised = NoneStr
    /\ \A i \in rows :
           s_BankAmt[1]._BankAmt[i] = Val(Side(s_df[i].Credit) - Side(s_df[i].Debit))

\* C20, for tables that lack one of the two columns as a whole: a row with a
\* value d in the only column gets -d when the column is the debit column and
\* +d when it is the credit column.
C20_WholeColumnMissing ==
    (Synthesized /\ s_columns # {"Debit", "Credit"}) =>
        CreditMinusDebit({i \in 1..Len(s_df) : OneSided(s_df[i])})

\* C20: in a table without an amount column and with a debit and/or a credit
\* column, a row with only a debit value d gets the amount -d and a row with
\* only a credit value c gets the amount +c, whether the other side is missing
\* as a whole column or empty in that row.
C20_CreditMinusDebit ==
    Synthesized => CreditMinusDebit({i \in 1..Len(s_df) : OneSided(s_df[i])})


\* ---------------------------------------------------------------------------
\* Column detection
\* ---------------------------------------------------------------------------
Cleaned == _normalize_columns(d_columns)
Least(S) == CHOOSE i \in S : \A j \in S : i <= j
ExactDate == {i \in 1..Len(d_columns) : Cleaned[i] \in DateNames}
LooseDate == {i \in 1..Len(d_columns) : Contains(Lower(Cleaned[i]), <<"d", "a", "t", "e">>)}
NoDateColumn == LooseDate = {}
NoAmountSource ==
    \A i \in 1..Len(d_columns) :
        /\ \A k \in 1..Len(AmountNames) : Cleaned[i] # AmountNames[k]
        /\ ~Contains(Lower(Cleaned[i]), <<"a", "m", "o", "u", "n", "t">>)
        /\ Cleaned[i] \notin DebitNames \cup CreditNames
        /\ ~ContainsAny(Cleaned[i], DebitKeys \cup CreditKeys)
MissingColumn == mpc = "KeyError"
NothingProcessed ==
    /\ df = <<>> /\ recs = <<>> /\ idx = 0 /\ used_receipt_ids = {}
    /\ counters = NoCounters /\ enriched = <<>> /\ summary = <<>>

\* C21: when the table has no date column, or neither an amount column nor a
\* debit or credit column, the run ends with MissingColumn before any record is
\* processed: no enriched records, no summary, no receipt consumed, nothing
\* follows, and the caller's table and the receipts are as they were.
C21_MissingColumnAborts ==
    /\ []((d_detected # <<>> /\ (NoDateColumn \/ NoAmountSource)) =>
            (MissingColumn /\ NothingProcessed))
    /\ [][~MissingColumn
          /\ bank_df' = bank_df /\ d_columns' = d_columns /\ receipts' = receipts]_vars

C21_Witness ==
    /\ MissingColumn /\ ~NoDateColumn /\ NoAmountSource
    /\ bank_df # <<>> /\ receipts # <<>>

\* C22: the detected date column is the first column, in column order, whose
\* cleaned name is one of the five known names; when there is none, the first
\* column whose cleaned name contains "date" in any case; when there is none
\* either, no column is reported and the run ends with MissingColumn.
C22_DateColumnDetected ==
    d_detected # <<>> =>
        /\ ExactDate # {} => d_detected[1].bank_date_col = Cleaned[Least(ExactDate)]
        /\ (ExactDate = {} /\ LooseDate # {}) =>
               d_detected[1].bank_date_col = Cleaned[Least(LooseDate)]
        /\ LooseDate = {} => (d_detected[1].bank_date_col = NoColumn /\ MissingColumn)

\* an exact name found behind a column that only contains "date"
C22_Witness ==
    /\ d_detected # <<>> /\ ExactDate # {}
    /\ Least(LooseDate) < Least(ExactDate)
    /\ d_detected[1].bank_date_col = Cleaned[Least(ExactDate)]
    /\ d_columns[Least(ExactDate)] # Cleaned[Least(ExactDate)]


\* ---------------------------------------------------------------------------
\* Concurrent audit appends
\* ---------------------------------------------------------------------------
Places(w, k, piece) == {i \in 1..Len(a_file) : a_file[i] = Piece(w, k, piece)}
\* every text in the file is followed by its own newline and every newline
\* follows its own text
IntactLines ==
    \A i \in 1..Len(a_file) :
        /\ a_file[i].piece = "json" =>
               (i < Len(a_file) /\ a_file[i + 1] = Piece(a_file[i].w, a_file[i].k, "\n"))
        /\ a_file[i].piece = "\n" =>
               (i > 1 /\ a_file[i - 1] = Piece(a_file[i].w, a_file[i].k, "json"))
AllClosed == \A w \in Writers : a_pc[w] = "closed"
EveryRecordOnce ==
    /\ \A w \in Writers : \A k \in 1..a_records[w] : Cardinality(Places(w, k, "json")) = 1
    /\ \A i \in 1..Len(a_file) :
           a_file[i].w # 0 => a_file[i].k \in 1..a_records[a_file[i].w]

\* C23: with several calls appending to the audit log at once, the file always
\* consists of intact lines, it only grows at its end, and once every call has
\* closed it each record of each call is in it exactly once.  Records of
\* different calls may alternate.
C23_InterleavedAppendsIntact ==
    /\ [](IntactLines /\ (AllClosed => EveryRecordOnce))
    /\ [][SubSeq(a_file', 1, Len(a_file)) = a_file]_vars

\* the two records of one call with a record of another call between them,
\* behind the older line
C23_Witness ==
    /\ AllClosed /\ a_file # <<>> /\ a_file[1] = Piece(0, 1, "json")
    /\ \E i \in Places(1, 1, "json") : \E j \in Places(2, 1, "json") :
       \E l \in Places(1, 2, "json") : i < j /\ j < l


\* ---------------------------------------------------------------------------
\* Several matching runs against one receipt store
\* ---------------------------------------------------------------------------
MatchedIn(run) ==
    {run.enriched[i].MatchedReceiptID : i \in 1..Len(run.enriched)} \ {NoneStr}

\* C24: the used set belongs to one run.  Every run starts its loop with an
\* empty used set, and two runs over the same table, against the same store
\* and with the same parameters, return the same records and the same summary
\* whatever ran before them, so both may match the same receipt.
C24_RunsIndependent ==
    /\ (mpc = "loop" /\ idx = 0) => used_receipt_ids = {}
    /\ \A m \in 1..Len(r_done) : \A n \in 1..Len(r_done) :
           r_done[m].bank_df = r_done[n].bank_df =>
               (r_done[m].enriched = r_done[n].enriched /\ r_done[m].summary = r_done[n].summary)

\* two finished runs that both matched receipt r1
C24_Witness ==
    /\ Len(r_done) >= 2
    /\ "r1" \in MatchedIn(r_done[1]) /\ "r1" \in MatchedIn(r_done[2])
    /\ r_done[1].summary[1].matched = 1 /\ r_done[2].summary[1].matched = 1


\* ---------------------------------------------------------------------------
\* previewBatch
\* ---------------------------------------------------------------------------
\* C25: a previewBatch call, whether its batch passes validation, fails it or
\* finds no account, sends nothing to the ledger and appends nothing to the
\* audit log: both are after the call what they were before it.
C25_PreviewIsDryRun ==
    [][q_preview' # q_preview => (ledger' = ledger /\ audit' = audit /\ calls' = calls)]_vars

\* a preview that passed validation and built both kinds of payload, with the
\* ledger and the audit log holding what an earlier postBatch left
C25_Witness ==
    /\ q_preview # <<>> /\ q_preview[1].error = NoError
    /\ q_preview[1].to_post_counts.payments > 0 /\ q_preview[1].to_post_counts.banktxns > 0
    /\ ledger # EmptyBag /\ audit # <<>>


\* ---------------------------------------------------------------------------
\* Batches with a line that is not valid
\* ---------------------------------------------------------------------------
NothingPosted(c) == Sent(c, "payments") = 0 /\ Sent(c, "banktxns") = 0 /\ ~Audited(c)
\* the batch of call c as validate_and_build of the orchestrator judges it
Judged(c) == validate_and_build(calls[c].req, calls[c].account[1].AccountID)

\* C26, for the lines the handler's own validation rejects: the call has
\* failed, has sent nothing, has no audit record, and its error names the line.
C26_RejectedPostsNothing ==
    \A c \in 1..Len(calls) :
        (calls[c].account # <<>> /\ calls[c].validated.err # NoError) =>
            /\ calls[c].pc = "failed" /\ NothingPosted(c)
            /\ \E i \in 1..Len(calls[c].req.lines) :
                   calls[c].validated.line = calls[c].req.lines[i].bank_line_id

\* C26: a batch with a line that fails validation (allocations missing, amounts
\* that do not agree, a spend line without a contact, a line without an account
\* reference, an unknown type) leaves no submission and no audit record, also
\* not for the valid lines before it, and the error names the failing line.
C26_InvalidLinePostsNothing ==
    \A c \in 1..Len(calls) :
        (calls[c].account # <<>> /\ Judged(c).err # NoError) =>
            /\ calls[c].pc = "failed" /\ NothingPosted(c)
            /\ calls[c].validated.line = Judged(c).line


\* ---------------------------------------------------------------------------
\* Order of the bank records
\* ---------------------------------------------------------------------------
Status(i) == df[i].ReviewStatus_Receipt
\* no record before record i was matched with the receipt at position k
Unclaimed(k, i) == \A h \in 1..(i - 1) : df[h].MatchedReceiptID # receipts[k].id

C27_FirstComeFirstServed ==
    /\ mpc = "done" /\ Len(df) = 2
    /\ Cardinality(SpecCandidates(1)) = 1 /\ SpecCandidates(1) = SpecCandidates(2)
    /\ Status(1) = MATCHED /\ Status(2) = DUPLICATE


\* ---------------------------------------------------------------------------
\* The summary of a run
\* ---------------------------------------------------------------------------
Outcomes == {MATCHED, NO_RECEIPT, MULTIPLE, DUPLICATE, NO_AMOUNT}
With(S) == Cardinality({i \in 1..Len(enriched) : enriched[i].ReviewStatus_Receipt \in S})

\* C28: when a run has returned, every record carries one of the five outcomes
\* and the summary counts them: matched, multi_candidates and
\* duplicate_receipt_use are the numbers of records with that outcome,
\* no_candidates is the number of records that are NoReceiptFound or NoAmount,
\* and the four add up to bank_rows, the number of records.
C28_SummaryCountsOutcomes ==
    mpc = "done" =>
        /\ Len(enriched) = Len(bank_df)
        /\ \A i \in 1..Len(enriched) : enriched[i].ReviewStatus_Receipt \in Outcomes
        /\ summary[1].bank_rows = Len(bank_df)
        /\ summary[1].matched = With({MATCHED})
        /\ summary[1].multi_candidates = With({MULTIPLE})
        /\ summary[1].duplicate_receipt_use = With({DUPLICATE})
        /\ summary[1].no_candidates = With({NO_RECEIPT, NO_AMOUNT})
        /\ summary[1].matched + summary[1].no_candidates + summary[1].multi_candidates
               + summary[1].duplicate_receipt_use = summary[1].bank_rows

\* a returned run with a record that was skipped for its amount and a record
\* that found no receipt: no_candidates counts both
C28_Witness ==
    /\ mpc = "done" /\ summary[1].bank_rows = 2 /\ summary[1].no_candidates = 2
    /\ With({NO_AMOUNT}) >= 1

\* ---------------------------------------------------------------------------
\* The keys of distinct postings, and the posted flags of the audit records
\* ---------------------------------------------------------------------------
\* the two submissions of one call carry different keys
KindsKeyedApart ==
    \A s \in Subs : \A t \in Subs :
        (s.call = t.call /\ s.kind # t.kind) => s.key # t.key
\* two submissions of one kind with different payload lists
DistinctPostings(s, t) == s.kind = t.kind /\ s.body # t.body

\* C29: within one batch the payments key differs from the banktxns key, and
\* two submissions of one artifact kind whose built payload lists differ never
\* carry the same idempotency key, the hash being collision-free.
C29_KeysSeparatePostings ==
    /\ KindsKeyedApart
    /\ \A s \in Subs : \A t \in Subs : DistinctPostings(s, t) => s.key # t.key

\* the part of C29 that the handler keeps: the namespace string keeps the two
\* kinds of one batch apart, and so does the resolved name when there is no hint
C29_KeysApartWithoutHint ==
    /\ KindsKeyedApart
    /\ \A s \in Subs : \A t \in Subs :
          (DistinctPostings(s, t) /\ calls[s.call].req.bank_account_hint = <<>>
              /\ calls[t.call].req.bank_account_hint = <<>>) => s.key # t.key

\* the submission of the kind ran in call c
Ran(c, kind) == Sent(c, kind) >= 1
\* the audit records of the calls that returned
Written == {i \in 1..Len(audit) : calls[audit[i].call].pc = "returned"}

\* C30: in every audit record of a call that returned, the payments flag is
\* true exactly when the payments submission ran in that call and the banktxns
\* flag exactly when the bank-transactions submission ran, whatever body the
\* ledger returned with its success.
C30_FlagsTellWhatRan ==
    \A i \in Written :
        /\ audit[i].xero_response_keys.payments = Ran(audit[i].call, "payments")
        /\ audit[i].xero_response_keys.banktxns = Ran(audit[i].call, "banktxns")

\* what the handler records instead: a flag is true exactly when the submission
\* ran and the ledger's success carried a non-empty body
C30_FlagsTellBody ==
    \A i \in Written :
        /\ audit[i].xero_response_keys.payments = Truthy(calls[audit[i].call].results.payments_result)
        /\ audit[i].xero_response_keys.banktxns = Truthy(calls[audit[i].call].results.banktxns_result)
        /\ audit[i].xero_response_keys.payments => Ran(audit[i].call, "payments")
        /\ audit[i].xero_response_keys.banktxns => Ran(audit[i].call, "banktxns")

====
